---- MODULE Spec2Model ----
(***************************************************************************)
(* Object pools of golang_primitives/helpers.go (and the earlier revision  *)
(* kept in unnamed/part_001): a ring buffer, the single-segment pools      *)
(* built on a mutex, a RW mutex, a channel, an atomic index and a          *)
(* condition variable, and the sharded wrappers that route to one segment. *)
(*                                                                         *)
(* Goroutines are the threads 1..NThreads.  A thread is idle or inside one *)
(* Get or Put; pc[t] is its position in that method.  A method is cut into *)
(* steps at its synchronisation points (Lock, Unlock, Wait, Load,          *)
(* CompareAndSwap, channel send/receive, the unsynchronised slot access of *)
(* AtomicBasedPool), which is where goroutines interleave.                 *)
(***************************************************************************)
EXTENDS Integers, Sequences, FiniteSets, TLC

\* ---------------------------------------------------------------- bounds
NThreads == 2      \* goroutines calling Get/Put
MaxCap == 2        \* capacity of a segment ranges over 1..MaxCap
MaxAlloc == 2      \* allocator calls after construction, per behaviour
MaxOps == 5        \* Get/Put calls per behaviour, where the calls are counted
MaxShards == 2     \* numShards of a sharded pool ranges over 1..MaxShards
MaxProcs == 2      \* GOMAXPROCS: runtime.procPin() returns 0..MaxProcs-1
MaxTrips == 2      \* Put(Get()) round trips of the goroutine left alone
MaxRequest == 5    \* largest capacity and numShards given to a sharded constructor
MaxPage == 5       \* largest page number of a goroutine's stack address

Threads == 1..NThreads
Nil == 0
Max(a, b) == IF a >= b THEN a ELSE b
MaxObjs == Max(MaxCap, MaxShards) + MaxAlloc
ObjIds == 1..MaxObjs
Procs == 0..(MaxProcs - 1)

\* the single-segment pool types
RingMutexVariants == {"MutexRingBufferPool", "RWMutexRingBufferPool"}
SingleVariants ==
    {"MutexRingBufferPool", "RWMutexRingBufferPool", "ChannelBasedPool",
     "MutexBasedPool", "AtomicBasedPool", "CondBasedPool", "RingBufferCondPool"}

\* the pool types whose Get waits on a sync.Cond
CondVariants == {"CondBasedPool", "RingBufferCondPool"}

\* the sharded pools that cache the segment index on the object
ShardedVariants ==
    {"ShardedMutexRingBufferPool", "ShardedChannelBasedPool",
     "ShardedAtomicBasedPool", "ShardedCondBasedPool",
     "ShardedRingBufferCondPool"}

\* the element type of a sharded pool's shards slice; a single-segment pool
\* is its own segment
SegmentTypeOf(v) ==
    CASE v = "ShardedMutexRingBufferPool" -> "MutexRingBufferPool"
      [] v = "ShardedChannelBasedPool" -> "ChannelBasedPool"
      [] v = "ShardedAtomicBasedPool" -> "AtomicBasedPool"
      [] v = "ShardedCondBasedPool" -> "RingBufferCondPool"
      [] v = "ShardedRingBufferCondPool" -> "RingBufferCondPool"
      [] v = "ShardedGoroutineIDPool" -> "MutexRingBufferPool"
      [] v = "EarlierAtomicBasedPool" -> "AtomicBasedPool"
      [] OTHER -> v

VARIABLES
    variant,      \* the pool type under test
    capacity,     \* capacity of each segment
    numShards,    \* number of segments (1 for a single-segment pool)
    ringBuffer,   \* [segment -> RingBuffer]       (ring variants)
    objects,      \* [segment -> sequence]         (slice, array or channel)
    index,        \* [segment -> atomic.Int64]     (AtomicBasedPool)
    mu,           \* [segment -> 0 | holder]       (sync.Mutex / RWMutex held exclusively)
    waiters,      \* [segment -> threads parked in cond.Wait]
    pc,           \* [thread -> position]
    obj,          \* [thread -> local obj: Put's argument, Get's result]
    idx,          \* [thread -> local idx of AtomicBasedPool]
    shard,        \* [thread -> segment the call was routed to]
    held,         \* [object -> number of callers holding it]
    objState,     \* [object -> testObject fields]
    allocs,       \* allocator calls since construction
    calls,        \* Get and Put calls made so far (Unbounded: not counted)
    stored,       \* objects a completed Put stored in the pool and no Get
                  \* has taken out since
    pushedSince,  \* [thread -> objects pushed since it began to Wait]
    panic,        \* "none", or the method whose runtime panic ended the program
    solo,         \* the goroutine that has the pool to itself, the occupancy
                  \* it found and the round trips it has begun (NoSolo: none)
    ret,          \* what the last direct call of a RingBuffer method returned
    request,      \* the arguments of a sharded constructor that runs as a step
                  \* of the behaviour (NoRequest: the pool exists from the start)
    addr          \* [thread -> address of the local variable `dummy` in its
                  \* last call of ShardedGoroutineIDPool.getShard]

vars == <<variant, capacity, numShards, ringBuffer, objects, index, mu, waiters,
          pc, obj, idx, shard, held, objState, allocs, calls, stored,
          pushedSince, panic, solo, ret, request, addr>>
static == <<variant, capacity, numShards, request>>
SegmentType == SegmentTypeOf(variant)
config == <<static, calls, panic, solo, ret, addr>>
NoSolo == [thread |-> Nil, before |-> 0, trips |-> 0]
NoRet == [op |-> "none", ok |-> FALSE, item |-> Nil]
NoRequest == [capacity |-> 0, numShards |-> 0]
Unbounded == [Get |-> -1, Put |-> -1]
NoCalls == [Get |-> 0, Put |-> 0]

\* ------------------------------------------------------------ testObject
\* testAllocator: a fresh object
testAllocator == [ID |-> 0, Data |-> "test", shardIndex |-> -1]

\* testCleaner: the canonical reset state
testCleaner(o) == [o EXCEPT !.ID = 0, !.Data = "", !.shardIndex = -1]

\* what a caller does to an object it holds before returning it
CallerWrite(o) == [o EXCEPT !.ID = 1, !.Data = "x"]

\* ------------------------------------------------------------ RingBuffer
NewRingBuffer(c) ==
    [buffer |-> [i \in 1..c |-> Nil], head |-> 0, tail |-> 0, size |-> 0,
     capacity |-> c]

\* a faulty Push, which overwrites the oldest item of a full buffer
Push_Overwriting(rb, item) ==
    [rb |-> [rb EXCEPT !.buffer[rb.tail + 1] = item,
                       !.tail = (rb.tail + 1) % rb.capacity,
                       !.size = IF rb.size >= rb.capacity THEN rb.size
                                ELSE rb.size + 1],
     ok |-> TRUE]

Push(rb, item) ==
    IF rb.size >= rb.capacity
    THEN [rb |-> rb, ok |-> FALSE]
    ELSE [rb |-> [rb EXCEPT !.buffer[rb.tail + 1] = item,
                            !.tail = (rb.tail + 1) % rb.capacity,
                            !.size = rb.size + 1],
          ok |-> TRUE]

\* a faulty Pop, which hands out the oldest item without giving up its place
Pop_KeepingSize(rb) ==
    IF rb.size <= 0
    THEN [rb |-> rb, item |-> Nil, ok |-> FALSE]
    ELSE [rb |-> [rb EXCEPT !.head = (rb.head + 1) % rb.capacity],
          item |-> rb.buffer[rb.head + 1],
          ok |-> TRUE]

\* a faulty Pop, which hands out the newest item
Pop_Newest(rb) ==
    IF rb.size <= 0
    THEN [rb |-> rb, item |-> Nil, ok |-> FALSE]
    ELSE [rb |-> [rb EXCEPT !.tail = (rb.tail + rb.capacity - 1) % rb.capacity,
                            !.size = rb.size - 1],
          item |-> rb.buffer[((rb.tail + rb.capacity - 1) % rb.capacity) + 1],
          ok |-> TRUE]

Pop(rb) ==
    IF rb.size <= 0
    THEN [rb |-> rb, item |-> Nil, ok |-> FALSE]
    ELSE [rb |-> [rb EXCEPT !.head = (rb.head + 1) % rb.capacity,
                            !.size = rb.size - 1],
          item |-> rb.buffer[rb.head + 1],
          ok |-> TRUE]

IsEmpty(rb) == rb.size = 0

IsFull(rb) == rb.size = rb.capacity

Size(rb) == rb.size

\* the constructors' pre-population loop over a ring buffer: Push(allocator())
RECURSIVE PushAll(_, _)
PushAll(rb, items) ==
    IF items = <<>> THEN rb
    ELSE PushAll(Push(rb, Head(items)).rb, Tail(items))

\* the objects the constructor of segment s allocates, in allocation order
PrePopulated(s, c) == [i \in 1..c |-> s * c + i]

Range(seq) == {seq[i] : i \in 1..Len(seq)}

NoRing == NewRingBuffer(0)

\* ---------------------------------------------------------- constructors
\* A constructed segment: the fields the pool types keep their objects in.
\* a faulty constructor, which leaves the ring buffer empty
NewMutexRingBufferPool_Empty(s, c) ==
    [ringBuffer |-> NewRingBuffer(c), objects |-> <<>>, index |-> 0]

NewMutexRingBufferPool(s, c) ==
    [ringBuffer |-> PushAll(NewRingBuffer(c), PrePopulated(s, c)),
     objects |-> <<>>, index |-> 0]

NewRWMutexRingBufferPool(s, c) ==
    [ringBuffer |-> PushAll(NewRingBuffer(c), PrePopulated(s, c)),
     objects |-> <<>>, index |-> 0]

NewChannelBasedPool(s, c) ==
    [ringBuffer |-> NoRing, objects |-> PrePopulated(s, c), index |-> 0]

NewMutexBasedPool(s, c) ==
    [ringBuffer |-> NoRing, objects |-> PrePopulated(s, c), index |-> 0]

\* a faulty constructor, which leaves the fill index at zero
NewAtomicBasedPool_IndexZero(s, c) ==
    [ringBuffer |-> NoRing, objects |-> PrePopulated(s, c), index |-> 0]

NewAtomicBasedPool(s, c) ==
    [ringBuffer |-> NoRing, objects |-> PrePopulated(s, c), index |-> c]

NewCondBasedPool(s, c) ==
    [ringBuffer |-> NoRing, objects |-> PrePopulated(s, c), index |-> 0]

NewRingBufferCondPool(s, c) ==
    [ringBuffer |-> PushAll(NewRingBuffer(c), PrePopulated(s, c)),
     objects |-> <<>>, index |-> 0]

NewSegment(v, s, c) ==
    CASE v = "MutexRingBufferPool" -> NewMutexRingBufferPool(s, c)
      [] v = "RWMutexRingBufferPool" -> NewRWMutexRingBufferPool(s, c)
      [] v = "ChannelBasedPool" -> NewChannelBasedPool(s, c)
      [] v = "MutexBasedPool" -> NewMutexBasedPool(s, c)
      [] v = "AtomicBasedPool" -> NewAtomicBasedPool(s, c)
      [] v = "CondBasedPool" -> NewCondBasedPool(s, c)
      [] v = "RingBufferCondPool" -> NewRingBufferCondPool(s, c)

Shards == 0..(numShards - 1)

\* the state every constructor leaves behind, for pool type v with n segments
\* of capacity c each
InitPool(v, n, c, k) ==
    /\ calls = k
    /\ stored = {}
    /\ pushedSince = [t \in Threads |-> {}]
    /\ variant = v
    /\ numShards = n
    /\ capacity = c
    /\ ringBuffer =
          [s \in 0..(n - 1) |-> NewSegment(SegmentTypeOf(v), s, c).ringBuffer]
    /\ objects = [s \in 0..(n - 1) |-> NewSegment(SegmentTypeOf(v), s, c).objects]
    /\ index = [s \in 0..(n - 1) |-> NewSegment(SegmentTypeOf(v), s, c).index]
    /\ mu = [s \in 0..(n - 1) |-> 0]
    /\ waiters = [s \in 0..(n - 1) |-> {}]
    /\ pc = [t \in Threads |-> "idle"]
    /\ obj = [t \in Threads |-> Nil]
    /\ idx = [t \in Threads |-> 0]
    /\ shard = [t \in Threads |-> 0]
    /\ held = [o \in ObjIds |-> 0]
    /\ objState = [o \in ObjIds |-> testAllocator]
    /\ allocs = 0
    /\ panic = "none"
    /\ solo = NoSolo
    /\ ret = NoRet
    /\ request = NoRequest
    /\ addr = [t \in Threads |-> 0]

Init == \E v \in SingleVariants, c \in 1..MaxCap : InitPool(v, 1, c, NoCalls)

\* a faulty division, which rounds the segment capacity up
shardCapacity_RoundedUp(c, n) == Max((c + n - 1) \div n, 1)

\* shardCapacity := max(capacity/numShards, 1)
shardCapacity(c, n) == Max(c \div n, 1)

\* NewSharded...Pool(capacity, numShards, ...) with numShards > 0
InitSharded ==
    \E v \in ShardedVariants, c \in 1..MaxCap, n \in 1..MaxShards :
        InitPool(v, n, shardCapacity(c, n), NoCalls)

\* ------------------------------------------------------------- the caller
\* positions of a Get that may still reach its allocator call
PendingGetLabels ==
    {"get_lock", "get_body", "get_recheck", "cond_wait", "cond_relock",
     "chan_get", "atomic_get_load", "atomic_get_cas"}

PendingGets == {t \in Threads : pc[t] \in PendingGetLabels}

RECURSIVE SumHeld(_)
SumHeld(S) ==
    IF S = {} THEN 0
    ELSE LET o == CHOOSE x \in S : TRUE IN held[o] + SumHeld(S \ {o})

TotalHeld == SumHeld(ObjIds)

FirstGetLabel ==
    CASE SegmentType = "ChannelBasedPool" -> "chan_get"
      [] SegmentType = "AtomicBasedPool" -> "atomic_get_load"
      [] OTHER -> "get_lock"

FirstPutLabel ==
    CASE SegmentType = "ChannelBasedPool" -> "chan_put_clean"
      [] SegmentType = "AtomicBasedPool" -> "atomic_put_load"
      [] OTHER -> "put_lock"

\* the allocator: the next object never seen before
NewObject == numShards * capacity + allocs + 1

\* one more call of method m ("Get" or "Put") is made, out of MaxOps
Called(m) ==
    /\ calls # Unbounded => calls.Get + calls.Put < MaxOps
    /\ calls' = IF calls = Unbounded THEN calls ELSE [calls EXCEPT ![m] = @ + 1]

\* a goroutine calls pool.Get(); the allocation budget MaxAlloc is reserved at
\* the call, so that no Get in progress is ever stopped by the bound
GetCall(t) ==
    /\ pc[t] = "idle"
    /\ allocs + Cardinality(PendingGets) < MaxAlloc
    /\ TotalHeld + Cardinality(PendingGets) < MaxObjs
    /\ pc' = [pc EXCEPT ![t] = FirstGetLabel]
    /\ shard' = [shard EXCEPT ![t] = 0]
    /\ Called("Get")
    /\ UNCHANGED <<static, panic, solo, ret, addr, ringBuffer, objects, index, mu, waiters, obj,
                   idx, held, objState, allocs, stored, pushedSince>>

\* a faulty return of Get, which caches the segment index on the object
GetReturn_Stamping(t) ==
    /\ pc[t] = "get_ret"
    /\ objState' = [objState EXCEPT ![obj[t]].shardIndex = shard[t]]
    /\ held' = [held EXCEPT ![obj[t]] = @ + 1]
    /\ pc' = [pc EXCEPT ![t] = "idle"]
    /\ obj' = [obj EXCEPT ![t] = Nil]
    /\ UNCHANGED <<config, ringBuffer, objects, index, mu, waiters, idx, shard,
                   allocs, stored, pushedSince>>

\* Get has returned obj[t]: the caller now holds it
GetReturn(t) ==
    /\ pc[t] = "get_ret"
    /\ held' = [held EXCEPT ![obj[t]] = @ + 1]
    /\ pc' = [pc EXCEPT ![t] = "idle"]
    /\ obj' = [obj EXCEPT ![t] = Nil]
    /\ UNCHANGED <<config, ringBuffer, objects, index, mu, waiters, idx, shard,
                   objState, allocs, stored, pushedSince>>

\* a caller writes to an object it holds
Use(o) ==
    /\ held[o] > 0
    /\ objState[o] # CallerWrite(objState[o])
    /\ objState' = [objState EXCEPT ![o] = CallerWrite(@)]
    /\ UNCHANGED <<config, ringBuffer, objects, index, mu, waiters, pc, obj, idx,
                   shard, held, allocs, stored, pushedSince>>

\* a goroutine calls pool.Put(o) with an object some caller holds
PutCall(t) ==
    /\ pc[t] = "idle"
    /\ \E o \in ObjIds :
          /\ held[o] > 0
          /\ held' = [held EXCEPT ![o] = @ - 1]
          /\ obj' = [obj EXCEPT ![t] = o]
    /\ pc' = [pc EXCEPT ![t] = FirstPutLabel]
    /\ shard' = [shard EXCEPT ![t] = 0]
    /\ Called("Put")
    /\ UNCHANGED <<static, panic, solo, ret, addr, ringBuffer, objects, index, mu, waiters, idx,
                   objState, allocs, stored, pushedSince>>

\* Put returns
PutDone(t) ==
    /\ pc' = [pc EXCEPT ![t] = "idle"]
    /\ obj' = [obj EXCEPT ![t] = Nil]
    /\ idx' = [idx EXCEPT ![t] = 0]

\* ------------------------------------------------------- sync.Mutex steps
\* a faulty Lock, which does not wait for the owner to unlock
Get_Lock_Barging(t) ==
    /\ pc[t] = "get_lock"
    /\ mu' = [mu EXCEPT ![shard[t]] = t]
    /\ pc' = [pc EXCEPT ![t] = "get_body"]
    /\ UNCHANGED <<config, ringBuffer, objects, index, waiters, obj, idx, shard,
                   held, objState, allocs, stored, pushedSince>>

\* p.mu.Lock() at the top of Get
Get_Lock(t) ==
    /\ pc[t] = "get_lock"
    /\ mu[shard[t]] = 0
    /\ mu' = [mu EXCEPT ![shard[t]] = t]
    /\ pc' = [pc EXCEPT ![t] = "get_body"]
    /\ UNCHANGED <<config, ringBuffer, objects, index, waiters, obj, idx, shard,
                   held, objState, allocs, stored, pushedSince>>

\* the deferred p.mu.Unlock() of Get
Get_Unlock(t) ==
    /\ pc[t] = "get_unlock"
    /\ mu' = [mu EXCEPT ![shard[t]] = 0]
    /\ pc' = [pc EXCEPT ![t] = "get_ret"]
    /\ UNCHANGED <<config, ringBuffer, objects, index, waiters, obj, idx, shard,
                   held, objState, allocs, stored, pushedSince>>

\* p.mu.Lock() at the top of Put
Put_Lock(t) ==
    /\ pc[t] = "put_lock"
    /\ mu[shard[t]] = 0
    /\ mu' = [mu EXCEPT ![shard[t]] = t]
    /\ pc' = [pc EXCEPT ![t] = "put_body"]
    /\ UNCHANGED <<config, ringBuffer, objects, index, waiters, obj, idx, shard,
                   held, objState, allocs, stored, pushedSince>>

\* the deferred p.mu.Unlock() of Put, and Put's return
Put_Unlock(t) ==
    /\ pc[t] = "put_unlock"
    /\ mu' = [mu EXCEPT ![shard[t]] = 0]
    /\ PutDone(t)
    /\ UNCHANGED <<config, ringBuffer, objects, index, waiters, shard, held,
                   objState, allocs, stored, pushedSince>>

\* -------------------------------------- MutexRingBufferPool (and RW twin)
\* a faulty Get body, which waits for a Put when Pop fails
RingPoolGet_Waiting(t) ==
    LET s == shard[t]
        r == Pop(ringBuffer[s])
    IN /\ pc[t] = "get_body"
       /\ IF r.ok
          THEN /\ ringBuffer' = [ringBuffer EXCEPT ![s] = r.rb]
               /\ obj' = [obj EXCEPT ![t] = r.item]
               /\ stored' = stored \ {r.item}
               /\ pc' = [pc EXCEPT ![t] = "get_unlock"]
               /\ UNCHANGED <<mu, waiters>>
          ELSE /\ waiters' = [waiters EXCEPT ![s] = @ \cup {t}]
               /\ mu' = [mu EXCEPT ![s] = 0]
               /\ pc' = [pc EXCEPT ![t] = "cond_wait"]
               /\ UNCHANGED <<ringBuffer, obj, stored>>
       /\ UNCHANGED <<config, objects, index, idx, shard, held, objState,
                      allocs, pushedSince>>

\* Get's body under the lock: Pop, or the allocator when Pop fails
RingPoolGet(t) ==
    LET s == shard[t]
        r == Pop(ringBuffer[s])
    IN /\ pc[t] = "get_body"
       /\ IF r.ok
          THEN /\ ringBuffer' = [ringBuffer EXCEPT ![s] = r.rb]
               /\ obj' = [obj EXCEPT ![t] = r.item]
               /\ stored' = stored \ {r.item}
               /\ allocs' = allocs
          ELSE /\ obj' = [obj EXCEPT ![t] = NewObject]
               /\ allocs' = allocs + 1
               /\ UNCHANGED <<ringBuffer, stored>>
       /\ pc' = [pc EXCEPT ![t] = "get_unlock"]
       /\ UNCHANGED <<config, objects, index, mu, waiters, idx, shard, held,
                      objState, pushedSince>>

\* a faulty Put body, which lets go of the object without pushing it
RingPoolPut_Discarding(t) ==
    /\ pc[t] = "put_body"
    /\ pc' = [pc EXCEPT ![t] = "put_unlock"]
    /\ UNCHANGED <<config, ringBuffer, objects, index, mu, waiters, obj, idx,
                   shard, held, objState, allocs, stored, pushedSince>>

\* a faulty Put body, which pushes into the next segment when its own is full
RingPoolPut_Spilling(t) ==
    LET s == IF IsFull(ringBuffer[shard[t]]) THEN (shard[t] + 1) % numShards
             ELSE shard[t]
        r == Push(ringBuffer[s], obj[t])
    IN /\ pc[t] = "put_body"
       /\ ringBuffer' = [ringBuffer EXCEPT ![s] = r.rb]
       /\ stored' = IF r.ok THEN stored \cup {obj[t]} ELSE stored
       /\ pc' = [pc EXCEPT ![t] = "put_unlock"]
       /\ UNCHANGED <<config, objects, index, mu, waiters, obj, idx, shard,
                      held, objState, allocs, pushedSince>>

\* Put's body under the lock: Push, its result ignored
RingPoolPut(t) ==
    LET s == shard[t]
        r == Push(ringBuffer[s], obj[t])
    IN /\ pc[t] = "put_body"
       /\ ringBuffer' = [ringBuffer EXCEPT ![s] = r.rb]
       /\ stored' = IF r.ok THEN stored \cup {obj[t]} ELSE stored
       /\ pc' = [pc EXCEPT ![t] = "put_unlock"]
       /\ UNCHANGED <<config, objects, index, mu, waiters, obj, idx, shard,
                      held, objState, allocs, pushedSince>>

MutexRingBufferPool_Get(t) == SegmentType = "MutexRingBufferPool" /\ RingPoolGet(t)

MutexRingBufferPool_Put(t) == SegmentType = "MutexRingBufferPool" /\ RingPoolPut(t)

RWMutexRingBufferPool_Get(t) == SegmentType = "RWMutexRingBufferPool" /\ RingPoolGet(t)

RWMutexRingBufferPool_Put(t) == SegmentType = "RWMutexRingBufferPool" /\ RingPoolPut(t)

\* ------------------------------------------------------- MutexBasedPool
\* a faulty Get body, which takes the object at the bottom of the slice
MutexBasedPool_Get_Oldest(t) ==
    LET s == shard[t]
        n == Len(objects[s])
    IN /\ SegmentType = "MutexBasedPool"
       /\ pc[t] = "get_body"
       /\ IF n = 0
          THEN /\ obj' = [obj EXCEPT ![t] = NewObject]
               /\ allocs' = allocs + 1
               /\ UNCHANGED <<objects, stored>>
          ELSE /\ obj' = [obj EXCEPT ![t] = objects[s][1]]
               /\ objects' = [objects EXCEPT ![s] = Tail(@)]
               /\ stored' = stored \ {objects[s][1]}
               /\ allocs' = allocs
       /\ pc' = [pc EXCEPT ![t] = "get_unlock"]
       /\ UNCHANGED <<config, ringBuffer, index, mu, waiters, idx, shard, held,
                      objState, pushedSince>>

\* if len(p.objects) == 0 { return p.allocator() }; pop the last element
MutexBasedPool_Get(t) ==
    LET s == shard[t]
        n == Len(objects[s])
    IN /\ SegmentType = "MutexBasedPool"
       /\ pc[t] = "get_body"
       /\ IF n = 0
          THEN /\ obj' = [obj EXCEPT ![t] = NewObject]
               /\ allocs' = allocs + 1
               /\ UNCHANGED <<objects, stored>>
          ELSE /\ obj' = [obj EXCEPT ![t] = objects[s][n]]
               /\ objects' = [objects EXCEPT ![s] = SubSeq(@, 1, n - 1)]
               /\ stored' = stored \ {objects[s][n]}
               /\ allocs' = allocs
       /\ pc' = [pc EXCEPT ![t] = "get_unlock"]
       /\ UNCHANGED <<config, ringBuffer, index, mu, waiters, idx, shard, held,
                      objState, pushedSince>>

MutexBasedPool_Put(t) ==
    LET s == shard[t]
    IN /\ SegmentType = "MutexBasedPool"
       /\ pc[t] = "put_body"
       /\ IF Len(objects[s]) < capacity
          THEN /\ objects' = [objects EXCEPT ![s] = Append(@, obj[t])]
               /\ stored' = stored \cup {obj[t]}
          ELSE UNCHANGED <<objects, stored>>
       /\ pc' = [pc EXCEPT ![t] = "put_unlock"]
       /\ UNCHANGED <<config, ringBuffer, index, mu, waiters, obj, idx, shard,
                      held, objState, allocs, pushedSince>>

\* ----------------------------------------------------- ChannelBasedPool
\* a faulty receive, which takes the value sent last
ChannelBasedPool_Get_Newest(t) ==
    LET s == shard[t]
        n == Len(objects[s])
    IN /\ SegmentType = "ChannelBasedPool"
       /\ pc[t] = "chan_get"
       /\ IF n > 0
          THEN /\ obj' = [obj EXCEPT ![t] = objects[s][n]]
               /\ objects' = [objects EXCEPT ![s] = SubSeq(@, 1, n - 1)]
               /\ stored' = stored \ {objects[s][n]}
               /\ allocs' = allocs
          ELSE /\ obj' = [obj EXCEPT ![t] = NewObject]
               /\ allocs' = allocs + 1
               /\ UNCHANGED <<objects, stored>>
       /\ pc' = [pc EXCEPT ![t] = "get_ret"]
       /\ UNCHANGED <<config, ringBuffer, index, mu, waiters, idx, shard, held,
                      objState, pushedSince>>

\* select { case obj := <-p.objects: ...; default: return p.allocator() }
ChannelBasedPool_Get(t) ==
    LET s == shard[t]
    IN /\ SegmentType = "ChannelBasedPool"
       /\ pc[t] = "chan_get"
       /\ IF Len(objects[s]) > 0
          THEN /\ obj' = [obj EXCEPT ![t] = Head(objects[s])]
               /\ objects' = [objects EXCEPT ![s] = Tail(@)]
               /\ stored' = stored \ {Head(objects[s])}
               /\ allocs' = allocs
          ELSE /\ obj' = [obj EXCEPT ![t] = NewObject]
               /\ allocs' = allocs + 1
               /\ UNCHANGED <<objects, stored>>
       /\ pc' = [pc EXCEPT ![t] = "get_ret"]
       /\ UNCHANGED <<config, ringBuffer, index, mu, waiters, idx, shard, held,
                      objState, pushedSince>>

\* p.cleaner(obj)
ChannelBasedPool_Put_Clean(t) ==
    /\ SegmentType = "ChannelBasedPool"
    /\ pc[t] = "chan_put_clean"
    /\ objState' = [objState EXCEPT ![obj[t]] = testCleaner(@)]
    /\ pc' = [pc EXCEPT ![t] = "chan_put_send"]
    /\ UNCHANGED <<config, ringBuffer, objects, index, mu, waiters, obj, idx,
                   shard, held, allocs, stored, pushedSince>>

\* a faulty send, select { case p.objects <- obj: default: }, which drops the
\* object when the channel is full
ChannelBasedPool_Put_Send_OrDrop(t) ==
    LET s == shard[t]
    IN /\ SegmentType = "ChannelBasedPool"
       /\ pc[t] = "chan_put_send"
       /\ IF Len(objects[s]) < capacity
          THEN /\ objects' = [objects EXCEPT ![s] = Append(@, obj[t])]
               /\ stored' = stored \cup {obj[t]}
          ELSE UNCHANGED <<objects, stored>>
       /\ PutDone(t)
       /\ UNCHANGED <<config, ringBuffer, index, mu, waiters, shard, held,
                      objState, allocs, pushedSince>>

\* a faulty send on a channel that a full buffer does not stop
ChannelBasedPool_Put_Send_Unbounded(t) ==
    LET s == shard[t]
    IN /\ SegmentType = "ChannelBasedPool"
       /\ pc[t] = "chan_put_send"
       /\ objects' = [objects EXCEPT ![s] = Append(@, obj[t])]
       /\ stored' = stored \cup {obj[t]}
       /\ PutDone(t)
       /\ UNCHANGED <<config, ringBuffer, index, mu, waiters, shard, held,
                      objState, allocs, pushedSince>>

\* p.objects <- obj: waits while the channel is full
ChannelBasedPool_Put_Send(t) ==
    LET s == shard[t]
    IN /\ SegmentType = "ChannelBasedPool"
       /\ pc[t] = "chan_put_send"
       /\ Len(objects[s]) < capacity
       /\ objects' = [objects EXCEPT ![s] = Append(@, obj[t])]
       /\ stored' = stored \cup {obj[t]}
       /\ PutDone(t)
       /\ UNCHANGED <<config, ringBuffer, index, mu, waiters, shard, held,
                      objState, allocs, pushedSince>>

\* ------------------------------------------------------ AtomicBasedPool
\* a faulty first step of Get, which gives up one object too early
AtomicBasedPool_Get_Load_OffByOne(t) ==
    LET s == shard[t]
    IN /\ SegmentType = "AtomicBasedPool"
       /\ pc[t] = "atomic_get_load"
       /\ IF index[s] <= 1
          THEN /\ obj' = [obj EXCEPT ![t] = NewObject]
               /\ allocs' = allocs + 1
               /\ pc' = [pc EXCEPT ![t] = "get_ret"]
               /\ idx' = idx
          ELSE /\ idx' = [idx EXCEPT ![t] = index[s]]
               /\ pc' = [pc EXCEPT ![t] = "atomic_get_cas"]
               /\ UNCHANGED <<obj, allocs>>
       /\ UNCHANGED <<config, ringBuffer, objects, index, mu, waiters, shard,
                      held, objState, stored, pushedSince>>

\* idx := p.index.Load(); if idx <= 0 { return p.allocator() }
AtomicBasedPool_Get_Load(t) ==
    LET s == shard[t]
    IN /\ SegmentType = "AtomicBasedPool"
       /\ pc[t] = "atomic_get_load"
       /\ IF index[s] <= 0
          THEN /\ obj' = [obj EXCEPT ![t] = NewObject]
               /\ allocs' = allocs + 1
               /\ pc' = [pc EXCEPT ![t] = "get_ret"]
               /\ idx' = idx
          ELSE /\ idx' = [idx EXCEPT ![t] = index[s]]
               /\ pc' = [pc EXCEPT ![t] = "atomic_get_cas"]
               /\ UNCHANGED <<obj, allocs>>
       /\ UNCHANGED <<config, ringBuffer, objects, index, mu, waiters, shard,
                      held, objState, stored, pushedSince>>

\* a faulty second step of Get, which stores idx-1 without comparing
AtomicBasedPool_Get_CAS_Blind(t) ==
    LET s == shard[t]
    IN /\ SegmentType = "AtomicBasedPool"
       /\ pc[t] = "atomic_get_cas"
       /\ index' = [index EXCEPT ![s] = idx[t] - 1]
       /\ pc' = [pc EXCEPT ![t] = "atomic_get_read"]
       /\ UNCHANGED <<config, ringBuffer, objects, mu, waiters, obj, idx, shard,
                      held, objState, allocs, stored, pushedSince>>

\* if p.index.CompareAndSwap(idx, idx-1)
AtomicBasedPool_Get_CAS(t) ==
    LET s == shard[t]
    IN /\ SegmentType = "AtomicBasedPool"
       /\ pc[t] = "atomic_get_cas"
       /\ IF index[s] = idx[t]
          THEN /\ index' = [index EXCEPT ![s] = idx[t] - 1]
               /\ pc' = [pc EXCEPT ![t] = "atomic_get_read"]
               /\ idx' = idx
          ELSE /\ index' = index
               /\ pc' = [pc EXCEPT ![t] = "atomic_get_load"]
               /\ idx' = [idx EXCEPT ![t] = 0]
       /\ UNCHANGED <<config, ringBuffer, objects, mu, waiters, obj, shard,
                      held, objState, allocs, stored, pushedSince>>

\* return p.objects[idx-1]
AtomicBasedPool_Get_Read(t) ==
    LET s == shard[t]
        o == objects[s][(idx[t] - 1) + 1]
    IN /\ SegmentType = "AtomicBasedPool"
       /\ pc[t] = "atomic_get_read"
       /\ obj' = [obj EXCEPT ![t] = o]
       /\ stored' = stored \ {o}
       /\ idx' = [idx EXCEPT ![t] = 0]
       /\ pc' = [pc EXCEPT ![t] = "get_ret"]
       /\ UNCHANGED <<config, ringBuffer, objects, index, mu, waiters, shard,
                      held, objState, allocs, pushedSince>>

\* a faulty first step of Put, which does not test idx against the capacity
AtomicBasedPool_Put_Load_Unchecked(t) ==
    LET s == shard[t]
    IN /\ SegmentType = "AtomicBasedPool"
       /\ pc[t] = "atomic_put_load"
       /\ idx' = [idx EXCEPT ![t] = index[s]]
       /\ pc' = [pc EXCEPT ![t] = "atomic_put_cas"]
       /\ UNCHANGED <<config, ringBuffer, objects, index, mu, waiters, obj,
                      shard, held, objState, allocs, stored, pushedSince>>

\* idx := p.index.Load(); if idx >= p.capacity { return }
AtomicBasedPool_Put_Load(t) ==
    LET s == shard[t]
    IN /\ SegmentType = "AtomicBasedPool"
       /\ pc[t] = "atomic_put_load"
       /\ IF index[s] >= capacity
          THEN PutDone(t)
          ELSE /\ idx' = [idx EXCEPT ![t] = index[s]]
               /\ pc' = [pc EXCEPT ![t] = "atomic_put_cas"]
               /\ obj' = obj
       /\ UNCHANGED <<config, ringBuffer, objects, index, mu, waiters, shard,
                      held, objState, allocs, stored, pushedSince>>

\* if p.index.CompareAndSwap(idx, idx+1)
AtomicBasedPool_Put_CAS(t) ==
    LET s == shard[t]
    IN /\ SegmentType = "AtomicBasedPool"
       /\ pc[t] = "atomic_put_cas"
       /\ IF index[s] = idx[t]
          THEN /\ index' = [index EXCEPT ![s] = idx[t] + 1]
               /\ pc' = [pc EXCEPT ![t] = "atomic_put_write"]
               /\ idx' = idx
          ELSE /\ index' = index
               /\ pc' = [pc EXCEPT ![t] = "atomic_put_load"]
               /\ idx' = [idx EXCEPT ![t] = 0]
       /\ UNCHANGED <<config, ringBuffer, objects, mu, waiters, obj, shard,
                      held, objState, allocs, stored, pushedSince>>

\* p.objects[idx] = obj; return
AtomicBasedPool_Put_Write(t) ==
    LET s == shard[t]
    IN /\ SegmentType = "AtomicBasedPool"
       /\ pc[t] = "atomic_put_write"
       /\ objects' = [objects EXCEPT ![s][idx[t] + 1] = obj[t]]
       /\ stored' = stored \cup {obj[t]}
       /\ PutDone(t)
       /\ UNCHANGED <<config, ringBuffer, index, mu, waiters, shard, held,
                      objState, allocs, pushedSince>>

\* ------------------------------------- CondBasedPool, RingBufferCondPool
\* cond.Wait(): join the notify list and release the lock, in one step
Wait(t) ==
    /\ waiters' = [waiters EXCEPT ![shard[t]] = @ \cup {t}]
    /\ mu' = [mu EXCEPT ![shard[t]] = 0]
    /\ pc' = [pc EXCEPT ![t] = "cond_wait"]
    /\ pushedSince' = [pushedSince EXCEPT ![t] = {}]

\* the goroutines of segment s that are inside cond.Wait()
InWait(s) ==
    {q \in Threads : shard[q] = s /\ pc[q] \in {"cond_wait", "cond_relock"}}

\* a faulty Signal, which wakes nobody
Signal_Lost(t, o, w) ==
    LET s == shard[t]
    IN /\ IF waiters[s] = {} THEN w = Nil ELSE w \in waiters[s]
       /\ waiters' = waiters
       /\ pc' = [pc EXCEPT ![t] = "put_unlock"]
       /\ pushedSince' = [q \in Threads |->
                            IF q \in InWait(s) THEN pushedSince[q] \cup {o}
                            ELSE pushedSince[q]]

\* cond.Signal() by goroutine t, which has just pushed o: wakes one parked
\* goroutine w, if there is any; w still has to take the lock again
Signal(t, o, w) ==
    LET s == shard[t]
    IN /\ IF waiters[s] = {} THEN w = Nil ELSE w \in waiters[s]
       /\ waiters' = [waiters EXCEPT ![s] = @ \ {w}]
       /\ pc' = [q \in Threads |->
                   IF q = w THEN "cond_relock"
                   ELSE IF q = t THEN "put_unlock" ELSE pc[q]]
       /\ pushedSince' = [q \in Threads |->
                            IF q \in InWait(s) THEN pushedSince[q] \cup {o}
                            ELSE pushedSince[q]]

\* the tail of cond.Wait(): c.L.Lock(), then the loop tests again
Wait_Relock(t) ==
    /\ pc[t] = "cond_relock"
    /\ mu[shard[t]] = 0
    /\ mu' = [mu EXCEPT ![shard[t]] = t]
    /\ pc' = [pc EXCEPT ![t] = "get_recheck"]
    /\ UNCHANGED <<config, ringBuffer, objects, index, waiters, obj, idx, shard,
                   held, objState, allocs, stored, pushedSince>>

\* for len(p.objects) == 0 { p.cond.Wait() }; then take the last element
CondBasedPool_Get(t) ==
    LET s == shard[t]
        n == Len(objects[s])
    IN /\ SegmentType = "CondBasedPool"
       /\ pc[t] \in {"get_body", "get_recheck"}
       /\ IF n = 0
          THEN /\ Wait(t)
               /\ UNCHANGED <<obj, objects, stored>>
          ELSE /\ obj' = [obj EXCEPT ![t] = objects[s][n]]
               /\ objects' = [objects EXCEPT ![s] = SubSeq(@, 1, n - 1)]
               /\ stored' = stored \ {objects[s][n]}
               /\ pc' = [pc EXCEPT ![t] = "get_unlock"]
               /\ pushedSince' = [pushedSince EXCEPT ![t] = {}]
               /\ UNCHANGED <<mu, waiters>>
       /\ UNCHANGED <<config, ringBuffer, index, idx, shard, held, objState,
                      allocs>>

CondBasedPool_Put(t) ==
    LET s == shard[t]
    IN /\ SegmentType = "CondBasedPool"
       /\ pc[t] = "put_body"
       /\ IF Len(objects[s]) < capacity
          THEN /\ objects' = [objects EXCEPT ![s] = Append(@, obj[t])]
               /\ stored' = stored \cup {obj[t]}
               /\ \E w \in waiters[s] \cup {Nil} : Signal(t, obj[t], w)
          ELSE /\ pc' = [pc EXCEPT ![t] = "put_unlock"]
               /\ UNCHANGED <<objects, stored, waiters, pushedSince>>
       /\ UNCHANGED <<config, ringBuffer, index, mu, obj, idx, shard, held,
                      objState, allocs>>

\* a faulty Get, which calls the allocator when the buffer is empty
RingBufferCondPool_Get_Allocating(t) ==
    /\ SegmentType = "RingBufferCondPool"
    /\ RingPoolGet(t)

\* for p.ringBuffer.IsEmpty() { p.cond.Wait() }; obj, _ := p.ringBuffer.Pop()
RingBufferCondPool_Get(t) ==
    LET s == shard[t]
        r == Pop(ringBuffer[s])
    IN /\ SegmentType = "RingBufferCondPool"
       /\ pc[t] \in {"get_body", "get_recheck"}
       /\ IF IsEmpty(ringBuffer[s])
          THEN /\ Wait(t)
               /\ UNCHANGED <<obj, ringBuffer, stored>>
          ELSE /\ obj' = [obj EXCEPT ![t] = r.item]
               /\ ringBuffer' = [ringBuffer EXCEPT ![s] = r.rb]
               /\ stored' = stored \ {r.item}
               /\ pc' = [pc EXCEPT ![t] = "get_unlock"]
               /\ pushedSince' = [pushedSince EXCEPT ![t] = {}]
               /\ UNCHANGED <<mu, waiters>>
       /\ UNCHANGED <<config, objects, index, idx, shard, held, objState, allocs>>

RingBufferCondPool_Put(t) ==
    LET s == shard[t]
    IN /\ SegmentType = "RingBufferCondPool"
       /\ pc[t] = "put_body"
       /\ IF ~IsFull(ringBuffer[s])
          THEN /\ ringBuffer' = [ringBuffer EXCEPT ![s] = Push(@, obj[t]).rb]
               /\ stored' = stored \cup {obj[t]}
               /\ \E w \in waiters[s] \cup {Nil} : Signal(t, obj[t], w)
          ELSE /\ pc' = [pc EXCEPT ![t] = "put_unlock"]
               /\ UNCHANGED <<ringBuffer, stored, waiters, pushedSince>>
       /\ UNCHANGED <<config, objects, index, mu, obj, idx, shard, held,
                      objState, allocs>>

\* ------------------------------------------------------- sharded wrappers
\* a runtime panic (index out of range) in method m ends the program
Crash(m) ==
    /\ panic' = m
    /\ pc' = [q \in Threads |-> "crashed"]

\* Get of the index-caching sharded pools, up to the call of shard.Get():
\*   shardIndex := runtimeProcPin(); shard := p.shards[shardIndex]
ShardedPool_Get(t) ==
    /\ pc[t] = "idle"
    /\ allocs + Cardinality(PendingGets) < MaxAlloc
    /\ TotalHeld + Cardinality(PendingGets) < MaxObjs
    /\ Called("Get")
    /\ \E shardIndex \in Procs :
          IF shardIndex \in Shards
          THEN /\ shard' = [shard EXCEPT ![t] = shardIndex]
               /\ pc' = [pc EXCEPT ![t] = FirstGetLabel]
               /\ panic' = panic
          ELSE /\ Crash("Get")
               /\ shard' = shard
    /\ UNCHANGED <<static, solo, ret, addr, ringBuffer, objects, index, mu, waiters, obj, idx,
                   held, objState, allocs, stored, pushedSince>>

\* shard.Get() has returned obj: obj.shardIndex = shardIndex; return obj
ShardedPool_Get_Return(t) ==
    /\ pc[t] = "get_ret"
    /\ objState' = [objState EXCEPT ![obj[t]].shardIndex = shard[t]]
    /\ held' = [held EXCEPT ![obj[t]] = @ + 1]
    /\ pc' = [pc EXCEPT ![t] = "idle"]
    /\ obj' = [obj EXCEPT ![t] = Nil]
    /\ UNCHANGED <<config, ringBuffer, objects, index, mu, waiters, idx, shard,
                   allocs, stored, pushedSince>>

\* a faulty Put, which picks the segment of the processor it runs on
Route_ByProcessor(t, o) ==
    /\ obj' = [obj EXCEPT ![t] = o]
    /\ \E shardIndex \in Procs \cap Shards :
          shard' = [shard EXCEPT ![t] = shardIndex]
    /\ pc' = [pc EXCEPT ![t] = FirstPutLabel]
    /\ panic' = panic

\* Put(o) of the index-caching sharded pools, up to the call of shard.Put(o).
\* Only ShardedChannelBasedPool tests the index before it indexes p.shards.
Route(t, o) ==
    LET shardIndex == objState[o].shardIndex
    IN /\ obj' = [obj EXCEPT ![t] = o]
       /\ IF shardIndex \in Shards
          THEN /\ shard' = [shard EXCEPT ![t] = shardIndex]
               /\ pc' = [pc EXCEPT ![t] = FirstPutLabel]
               /\ panic' = panic
          ELSE IF variant = "ShardedChannelBasedPool"
          THEN UNCHANGED <<shard, pc, panic>>
          ELSE /\ Crash("Put")
               /\ shard' = shard

\* a goroutine calls Put(o) with an object some caller holds
ShardedPool_Put(t) ==
    /\ pc[t] = "idle"
    /\ Called("Put")
    /\ \E o \in ObjIds :
          /\ held[o] > 0
          /\ held' = [held EXCEPT ![o] = @ - 1]
          /\ Route(t, o)
    /\ UNCHANGED <<static, solo, ret, addr, ringBuffer, objects, index, mu, waiters, idx, objState,
                   allocs, stored, pushedSince>>

\* a goroutine calls Put(testAllocator()): an object no Get has returned
ShardedPool_Put_Unassigned(t) ==
    /\ pc[t] = "idle"
    /\ allocs + Cardinality(PendingGets) < MaxAlloc
    /\ Called("Put")
    /\ allocs' = allocs + 1
    /\ Route(t, NewObject)
    /\ UNCHANGED <<static, solo, ret, addr, ringBuffer, objects, index, mu, waiters, idx, held,
                   objState, stored, pushedSince>>

\* ------------------------------------------------------------ next state
Step(t) ==
    \/ GetCall(t)
    \/ GetReturn(t)
    \/ PutCall(t)
    \/ Get_Lock(t)
    \/ Get_Unlock(t)
    \/ Put_Lock(t)
    \/ Put_Unlock(t)
    \/ MutexRingBufferPool_Get(t)
    \/ MutexRingBufferPool_Put(t)
    \/ RWMutexRingBufferPool_Get(t)
    \/ RWMutexRingBufferPool_Put(t)
    \/ MutexBasedPool_Get(t)
    \/ MutexBasedPool_Put(t)
    \/ ChannelBasedPool_Get(t)
    \/ ChannelBasedPool_Put_Clean(t)
    \/ ChannelBasedPool_Put_Send(t)
    \/ AtomicBasedPool_Get_Load(t)
    \/ AtomicBasedPool_Get_CAS(t)
    \/ AtomicBasedPool_Get_Read(t)
    \/ AtomicBasedPool_Put_Load(t)
    \/ AtomicBasedPool_Put_CAS(t)
    \/ AtomicBasedPool_Put_Write(t)
    \/ Wait_Relock(t)
    \/ CondBasedPool_Get(t)
    \/ CondBasedPool_Put(t)
    \/ RingBufferCondPool_Get(t)
    \/ RingBufferCondPool_Put(t)

Next == \E t \in Threads : Step(t)

\* every interleaving of at most MaxOps calls on one single-segment pool
Spec == Init /\ [][Next]_vars

\* the same, with callers that write to the objects they hold
NextUse == Next \/ (\E o \in ObjIds : Use(o))

SpecUse == Init /\ [][NextUse]_vars

\* calls without end, by two goroutines (a caller and one that interferes
\* with it), on a pool of capacity 1 whose Get allocates on underflow
LiveThreads == {1, 2}

LiveVariants == {"MutexRingBufferPool", "RWMutexRingBufferPool", "AtomicBasedPool"}

InitLive == \E v \in LiveVariants : InitPool(v, 1, 1, Unbounded)

\* the steps inside a call: everything but the decision to call
Progress(t) ==
    \/ GetReturn(t)
    \/ Get_Lock(t)
    \/ Get_Unlock(t)
    \/ Put_Lock(t)
    \/ Put_Unlock(t)
    \/ MutexRingBufferPool_Get(t)
    \/ MutexRingBufferPool_Put(t)
    \/ RWMutexRingBufferPool_Get(t)
    \/ RWMutexRingBufferPool_Put(t)
    \/ AtomicBasedPool_Get_Load(t)
    \/ AtomicBasedPool_Get_CAS(t)
    \/ AtomicBasedPool_Get_Read(t)
    \/ AtomicBasedPool_Put_Load(t)
    \/ AtomicBasedPool_Put_CAS(t)
    \/ AtomicBasedPool_Put_Write(t)

LiveStep(t) ==
    \/ GetCall(t)
    \/ PutCall(t)
    \/ Progress(t)

NextLive == \E t \in LiveThreads : LiveStep(t)

\* The Go scheduler runs every runnable goroutine again (weak fairness of the
\* steps inside a call); sync.Mutex in starvation mode hands the lock to a
\* goroutine that keeps waiting for it (strong fairness of Lock).  Nothing
\* obliges a caller to make another call.
FairLive ==
    \A t \in LiveThreads :
        /\ WF_vars(Progress(t))
        /\ SF_vars(Get_Lock(t) \/ Put_Lock(t))

SpecLive == InitLive /\ [][NextLive]_vars /\ FairLive

\* at most MaxOps calls on one condition-variable pool, fairly scheduled
InitCond ==
    \E v \in CondVariants, c \in 1..MaxCap :
        InitPool(v, 1, c, NoCalls)

CondProgress(t) ==
    \/ GetReturn(t)
    \/ Get_Lock(t)
    \/ Get_Unlock(t)
    \/ Put_Lock(t)
    \/ Put_Unlock(t)
    \/ Wait_Relock(t)
    \/ CondBasedPool_Get(t)
    \/ CondBasedPool_Put(t)
    \/ RingBufferCondPool_Get(t)
    \/ RingBufferCondPool_Put(t)

CondStep(t) ==
    \/ GetCall(t)
    \/ PutCall(t)
    \/ CondProgress(t)

NextCond == \E t \in Threads : CondStep(t)

\* The Go scheduler runs every runnable goroutine again.  The calls are
\* finitely many here, so a mutex is not contended for ever and weak fairness
\* is enough for Lock too.
FairCond == \A t \in Threads : WF_vars(CondProgress(t))

SpecCond == InitCond /\ [][NextCond]_vars /\ FairCond

\* every interleaving of at most MaxOps calls on one sharded pool
ShardedStep(t) ==
    \/ ShardedPool_Get(t)
    \/ ShardedPool_Get_Return(t)
    \/ ShardedPool_Put(t)
    \/ ShardedPool_Put_Unassigned(t)
    \/ Get_Lock(t)
    \/ Get_Unlock(t)
    \/ Put_Lock(t)
    \/ Put_Unlock(t)
    \/ MutexRingBufferPool_Get(t)
    \/ MutexRingBufferPool_Put(t)
    \/ ChannelBasedPool_Get(t)
    \/ ChannelBasedPool_Put_Clean(t)
    \/ ChannelBasedPool_Put_Send(t)
    \/ AtomicBasedPool_Get_Load(t)
    \/ AtomicBasedPool_Get_CAS(t)
    \/ AtomicBasedPool_Get_Read(t)
    \/ AtomicBasedPool_Put_Load(t)
    \/ AtomicBasedPool_Put_CAS(t)
    \/ AtomicBasedPool_Put_Write(t)
    \/ Wait_Relock(t)
    \/ RingBufferCondPool_Get(t)
    \/ RingBufferCondPool_Put(t)

NextSharded == \E t \in Threads : ShardedStep(t)

SpecSharded == InitSharded /\ [][NextSharded]_vars

\* ------------------------------------------------------------ properties
\* the callers that hold object o: it was returned by a Get and not Put back
Holders(o) ==
    held[o] + Cardinality({t \in Threads : pc[t] = "get_ret" /\ obj[t] = o})

\* the objects somewhere in the backing storage of segment s
InStorage(s) ==
    Range(objects[s]) \cup Range(ringBuffer[s].buffer)

\* C1: in AtomicBasedPool, under every interleaving of Get and Put by callers
\* that Put only objects they hold, no object is held by two callers at once,
\* and no object stored by a completed Put is overwritten before a Get has
\* taken it out.
C1_AtomicExclusive ==
    variant = "AtomicBasedPool" =>
        /\ \A o \in ObjIds : Holders(o) <= 1
        /\ \A o \in stored : o \in InStorage(0)

\* C2: in the sharded pools that route Put by the cached segment index, a Put
\* of an object whose index is outside [0, numShards) is a no-op: it makes no
\* out-of-range access to the segment list (which in Go is a runtime panic).
C2_InvalidIndexPutIsNoOp ==
    variant \in ShardedVariants => panic # "Put"

\* C3: every object a Put has made resident is in the cleaner's reset state.
C3_CleanerAppliedOnPut ==
    variant \in SingleVariants =>
        \A o \in stored : objState[o] = testCleaner(objState[o])

\* the objects of segment s a Get can take: the occupied part of its storage
Resident(s) ==
    CASE SegmentType \in {"MutexRingBufferPool", "RWMutexRingBufferPool",
                          "RingBufferCondPool"} ->
           LET rb == ringBuffer[s]
           IN {rb.buffer[((rb.head + i) % rb.capacity) + 1] : i \in 0..(rb.size - 1)}
      [] SegmentType = "AtomicBasedPool" ->
           {objects[s][i] : i \in 1..index[s]}
      [] OTHER -> Range(objects[s])

\* the number of objects segment s counts as resident
Occupancy(s) ==
    CASE SegmentType \in {"MutexRingBufferPool", "RWMutexRingBufferPool",
                          "RingBufferCondPool"} -> Size(ringBuffer[s])
      [] SegmentType = "AtomicBasedPool" -> index[s]
      [] OTHER -> Len(objects[s])

Storage(s) == <<ringBuffer[s], objects[s], index[s]>>

\* C4: on a fresh single-segment pool, as long as no Put has been called and
\* at most `capacity` Gets have been called, the allocator has not been
\* invoked, no Get waits, the objects returned are pre-populated ones and
\* pairwise distinct, and once the calls have returned there is one object
\* held per call.
C4_FreshPoolFullyStocked ==
    (variant \in SingleVariants /\ calls.Put = 0 /\ calls.Get <= capacity) =>
        /\ allocs = 0
        /\ \A o \in ObjIds : Holders(o) <= 1
        /\ \A t \in Threads :
              /\ pc[t] \notin {"cond_wait", "cond_relock", "get_recheck"}
              /\ pc[t] = "get_ret" => obj[t] \in 1..capacity
        /\ (\A t \in Threads : pc[t] = "idle") => TotalHeld = calls.Get

\* `capacity` Gets (capacity > 1) have returned on a fresh pool, no Put called
C4_Witness ==
    /\ calls.Put = 0
    /\ calls.Get = capacity
    /\ capacity > 1
    /\ \A t \in Threads : pc[t] = "idle"
    /\ \A o \in 1..capacity : held[o] = 1

\* the variants whose Put drops the object when the segment is full
DropVariants ==
    {"MutexRingBufferPool", "RWMutexRingBufferPool", "MutexBasedPool",
     "AtomicBasedPool", "CondBasedPool", "RingBufferCondPool"}

\* Put of thread t is about to test a segment that is full
AtFullPut(t) ==
    /\ pc[t] \in {"put_body", "atomic_put_load"}
    /\ Occupancy(shard[t]) = capacity

\* the step of a Put that finds its segment full
FullPutDrops(t) ==
    (AtFullPut(t) /\ pc'[t] # pc[t]) =>
        /\ Storage(0)' = Storage(0)
        /\ stored' = stored
        /\ pc'[t] \in {"put_unlock", "idle"}

ReturnsBySend(t) ==
    (pc[t] \in {"chan_put_clean", "chan_put_send"} /\ pc'[t] = "idle") =>
        /\ Len(objects[0]) < capacity
        /\ objects'[0] = Append(objects[0], obj[t])
        /\ obj[t] \in stored'

\* C7: ChannelBasedPool.Put never drops: a Put returns only by a send that
\* appends its object to the channel, the send is possible exactly when the
\* channel holds fewer than `capacity` objects, and until then the Put stays
\* where it is.
C7_ChannelPutNeverDrops ==
    /\ [](variant = "ChannelBasedPool" =>
             /\ Len(objects[0]) <= capacity
             /\ \A t \in Threads :
                   pc[t] = "chan_put_send" =>
                       (ENABLED Step(t) <=> Len(objects[0]) < capacity))
    /\ [][(variant = "ChannelBasedPool") => \A t \in Threads : ReturnsBySend(t)]_vars

\* one Put has enqueued its object and another is blocked on the full channel
C7_Witness ==
    /\ variant = "ChannelBasedPool"
    /\ stored # {}
    /\ \E t \in Threads :
          pc[t] = "chan_put_send" /\ Len(objects[0]) = capacity

\* Put of thread t is blocked in its send on a full channel
BlockedInSend(t) ==
    /\ pc[t] = "chan_put_send"
    /\ Len(objects[shard[t]]) = capacity

\* a step that receives nothing from the channel leaves a blocked Put blocked
StaysBlocked(t) ==
    (BlockedInSend(t) /\ Len(objects'[0]) >= Len(objects[0])) => BlockedInSend(t)'

\* C8: a ChannelBasedPool.Put blocked on a full channel stays blocked in every
\* step that is not a receive by a Get, so with no later Get it blocks for
\* ever, having no step of its own.  Such a state is reachable from a fresh
\* pool (C8_Witness).
C8_ChannelPutBlocksUntilGet ==
    /\ [](variant = "ChannelBasedPool" =>
             \A t \in Threads : BlockedInSend(t) => ~ENABLED Step(t))
    /\ [][(variant = "ChannelBasedPool") => \A t \in Threads : StaysBlocked(t)]_vars

\* callers hold more objects than the channel has free slots, one of them is
\* blocked in Put and no thread is in a Get
C8_Witness ==
    /\ variant = "ChannelBasedPool"
    /\ \E t \in Threads : BlockedInSend(t)
    /\ \A t \in Threads : pc[t] \in {"idle", "chan_put_send"}
    /\ TotalHeld = 0

\* the step of a condition-variable Get that holds the lock
WaitsOrTakes(t) ==
    (pc[t] \in {"get_body", "get_recheck"} /\ pc'[t] # pc[t]) =>
        IF Occupancy(0) = 0
        THEN pc'[t] = "cond_wait" /\ Storage(0)' = Storage(0)
        ELSE /\ pc'[t] = "get_unlock"
             /\ obj'[t] \in Resident(0)
             /\ obj'[t] \notin Resident(0)'

\* C9: Get of CondBasedPool and of RingBufferCondPool never calls the
\* allocator: while the buffer is empty it waits, and what it returns is an
\* object that was resident in the buffer, which it takes out.
C9_CondGetNeverAllocates ==
    /\ [](variant \in CondVariants =>
             /\ allocs = 0
             /\ \A t \in Threads :
                   pc[t] \in {"get_unlock", "get_ret"} => obj[t] \in 1..capacity)
    /\ [][(variant \in CondVariants) => \A t \in Threads : WaitsOrTakes(t)]_vars

\* a Get waits on the empty buffer of a condition-variable pool while the
\* object it waits for is held
C9_Witness ==
    /\ variant \in CondVariants
    /\ \E t \in Threads : pc[t] = "cond_wait"
    /\ Occupancy(0) = 0
    /\ TotalHeld = capacity

\* thread t is inside a Get that has not returned yet
InGet(t) == pc[t] \in PendingGetLabels \cup {"get_unlock", "atomic_get_read"}

\* C5 as stated: in the mutex, RW-mutex and atomic variants every Get call
\* terminates and returns an object, under any interleaving with other
\* callers.
C5_EveryGetTerminates ==
    \A t \in LiveThreads : InGet(t) ~> (pc[t] = "get_ret")

\* a Get cannot move only while another call holds the lock it asks for
GetNeverWaitsForObject(t) ==
    InGet(t) =>
        IF pc[t] = "get_lock" /\ mu[0] # 0
        THEN ENABLED Progress(mu[0])
        ELSE ENABLED Progress(t)

\* the step of a Get that finds the segment empty returns a fresh object
UnderflowAllocates(t) ==
    (/\ pc[t] \in {"get_body", "atomic_get_load"}
     /\ Occupancy(0) <= 0
     /\ pc'[t] # pc[t]) =>
        /\ pc'[t] \in {"get_unlock", "get_ret"}
        /\ allocs' = allocs + 1
        /\ obj'[t] \notin Resident(0)
        /\ Holders(obj'[t]) = 0
        /\ Storage(0)' = Storage(0)

\* the fill index changes
IndexChanges == index'[0] # index[0]

\* C5, amended: in the mutex, RW-mutex and atomic variants a Get never waits
\* for an object: it can always move, or the holder of the lock can; on an
\* empty segment it returns a fresh object of the allocator.  Under fair
\* scheduling every Get returns unless the fill index changes again and again
\* without end (each change can fail one CompareAndSwap); the index changes
\* in the atomic variant only, so every Get of the mutex and RW-mutex
\* variants returns.
C5_GetNeverBlocksOnUnderflow ==
    /\ [](\A t \in Threads : GetNeverWaitsForObject(t))
    /\ [][\A t \in Threads : UnderflowAllocates(t)]_vars
    /\ [][(variant \in RingMutexVariants) => ~IndexChanges]_vars
    /\ \A t \in LiveThreads :
          \/ []<>(~InGet(t))
          \/ []<><<IndexChanges>>_vars

\* a Get on an empty segment is returning an object that the allocator made
C5_Witness ==
    /\ \E t \in Threads : pc[t] = "get_ret" /\ obj[t] > capacity
    /\ Occupancy(0) = 0
    /\ allocs > 0

\* a Get that finds the buffer empty blocks, a blocked Get is woken only by
\* the Signal of a Put that has pushed its object, and a Get that has waited
\* takes an object pushed since it began to wait
BlockedGetStep(t) ==
    /\ (pc[t] = "get_body" /\ Occupancy(0) = 0 /\ pc'[t] # pc[t]) =>
           pc'[t] = "cond_wait"
    /\ (pc[t] = "cond_wait" /\ pc'[t] # pc[t]) =>
           /\ pc'[t] = "cond_relock"
           /\ \E a \in Threads :
                 /\ pc[a] = "put_body"
                 /\ pc'[a] = "put_unlock"
                 /\ obj[a] \in Resident(0)' \ Resident(0)
    /\ (pc[t] = "get_recheck" /\ pc'[t] = "get_unlock") =>
           obj'[t] \in pushedSince[t]

\* B is blocked in Get on a pool of capacity 1 while A is in Put(x), and no
\* other thread is in a Get
HandOffBegins(b, x) ==
    /\ capacity = 1
    /\ pc[b] = "cond_wait"
    /\ \E a \in Threads : pc[a] \in {"put_lock", "put_body"} /\ obj[a] = x
    /\ \A u \in Threads \ {b} : ~InGet(u)

\* C10: in the condition-variable variants a Get on an empty buffer blocks, is
\* woken only by a Put, and returns only an object pushed after it began to
\* wait; with capacity 1, when B is blocked in Get and A calls Put(x), B's Get
\* returns x under fair scheduling, unless another thread calls Get first
\* (x is one of the objects the constructor made: by C9 there are no others).
C10_CondHandOff ==
    /\ [][\A t \in Threads : BlockedGetStep(t)]_vars
    /\ \A b \in Threads, x \in Range(PrePopulated(0, 1)) :
          HandOffBegins(b, x) ~>
              \/ pc[b] = "get_ret" /\ obj[b] = x
              \/ \E u \in Threads \ {b} : InGet(u)

\* capacity 1: B's Get, which waited, is returning the object A has Put
C10_Witness ==
    /\ capacity = 1
    /\ calls = [Get |-> 2, Put |-> 1]
    /\ held = [o \in ObjIds |-> 0]
    /\ \E b \in Threads : pc[b] = "get_ret" /\ obj[b] = 1
    /\ \A t \in Threads : pc[t] \in {"get_ret", "idle"}


\* ------------------------------------------------ Put(Get()) round trips
\* Benchmark_MutexRingBufferPool and its siblings call pool.Put(pool.Get()) in
\* a loop.  Goroutines first use the pool concurrently; at a moment at which
\* no call is in progress one goroutine is left alone with the pool and runs
\* that loop, at most MaxTrips times.
InitRoundTrip ==
    \E v \in LiveVariants, c \in 1..MaxCap : InitPool(v, 1, c, NoCalls)

AllIdle == \A t \in Threads : pc[t] = "idle"

\* from here on goroutine t has the pool to itself
BeginSolo(t) ==
    /\ solo = NoSolo
    /\ AllIdle
    /\ solo' = [thread |-> t, before |-> Occupancy(0), trips |-> 0]
    /\ UNCHANGED <<static, calls, panic, ret, addr, ringBuffer, objects, index, mu, waiters,
                   pc, obj, idx, shard, held, objState, allocs, stored,
                   pushedSince>>

\* obj := pool.Get() of the loop body
RoundTrip_Get(t) ==
    /\ solo.thread = t
    /\ solo.trips < MaxTrips
    /\ pc[t] = "idle"
    /\ allocs < MaxAlloc
    /\ solo' = [solo EXCEPT !.trips = @ + 1]
    /\ pc' = [pc EXCEPT ![t] = FirstGetLabel]
    /\ shard' = [shard EXCEPT ![t] = 0]
    /\ UNCHANGED <<static, calls, panic, ret, addr, ringBuffer, objects, index, mu, waiters,
                   obj, idx, held, objState, allocs, stored, pushedSince>>

\* pool.Put(obj) of the loop body: the object Get returned goes straight back
RoundTrip_Put(t) ==
    /\ solo.thread = t
    /\ pc[t] = "get_ret"
    /\ pc' = [pc EXCEPT ![t] = FirstPutLabel]
    /\ UNCHANGED <<config, ringBuffer, objects, index, mu, waiters, obj, idx,
                   shard, held, objState, allocs, stored, pushedSince>>

RoundTripStep(t) ==
    \/ solo = NoSolo /\ GetCall(t)
    \/ solo = NoSolo /\ PutCall(t)
    \/ solo = NoSolo /\ GetReturn(t)
    \/ BeginSolo(t)
    \/ RoundTrip_Get(t)
    \/ RoundTrip_Put(t)
    \/ Get_Lock(t)
    \/ Get_Unlock(t)
    \/ Put_Lock(t)
    \/ Put_Unlock(t)
    \/ MutexRingBufferPool_Get(t)
    \/ MutexRingBufferPool_Put(t)
    \/ RWMutexRingBufferPool_Get(t)
    \/ RWMutexRingBufferPool_Put(t)
    \/ AtomicBasedPool_Get_Load(t)
    \/ AtomicBasedPool_Get_CAS(t)
    \/ AtomicBasedPool_Get_Read(t)
    \/ AtomicBasedPool_Put_Load(t)
    \/ AtomicBasedPool_Put_CAS(t)
    \/ AtomicBasedPool_Put_Write(t)

NextRoundTrip == \E t \in Threads : RoundTripStep(t)

SpecRoundTrip == InitRoundTrip /\ [][NextRoundTrip]_vars

\* the goroutine left alone is between two iterations of its loop
BetweenTrips == solo # NoSolo /\ pc[solo.thread] = "idle"

\* the statement as the specification words it: from any state, any number
\* of round trips leaves the occupancy where it was
C11_RoundTripFromAnyState ==
    BetweenTrips => Occupancy(0) = solo.before

\* C11: for MutexRingBufferPool, RWMutexRingBufferPool and AtomicBasedPool,
\* when one goroutine performs Put(Get()) any number of times with no other
\* call in progress, the occupancy after each completed round trip equals the
\* occupancy before the first Get provided the pool was not empty then; from
\* an empty pool the first round trip allocates an object and stores it, so
\* the occupancy is 1 after every completed round trip.
C11_RoundTripPreservesOccupancy ==
    (BetweenTrips /\ solo.trips > 0) =>
        Occupancy(0) = (IF solo.before = 0 THEN 1 ELSE solo.before)

C11_Witness ==
    /\ BetweenTrips
    /\ solo.trips = MaxTrips
    /\ solo.before > 0
    /\ Occupancy(0) = solo.before


\* --------------------------------------------- the RingBuffer on its own
\* NewRingBuffer[*Object](c) for a capacity c >= 1, then any sequence of Push
\* and Pop calls made directly on it.
InitRing ==
    \E c \in 1..MaxCap :
        /\ variant = "RingBuffer"
        /\ numShards = 1
        /\ capacity = c
        /\ ringBuffer = [s \in {0} |-> NewRingBuffer(c)]
        /\ objects = [s \in {0} |-> <<>>]
        /\ index = [s \in {0} |-> 0]
        /\ mu = [s \in {0} |-> 0]
        /\ waiters = [s \in {0} |-> {}]
        /\ pc = [t \in Threads |-> "idle"]
        /\ obj = [t \in Threads |-> Nil]
        /\ idx = [t \in Threads |-> 0]
        /\ shard = [t \in Threads |-> 0]
        /\ held = [o \in ObjIds |-> 0]
        /\ objState = [o \in ObjIds |-> testAllocator]
        /\ allocs = 0
        /\ calls = NoCalls
        /\ stored = {}
        /\ pushedSince = [t \in Threads |-> {}]
        /\ panic = "none"
        /\ solo = NoSolo
        /\ ret = NoRet
        /\ request = NoRequest
        /\ addr = [t \in Threads |-> 0]

\* ok := rb.Push(item)
RingBuffer_Push(item) ==
    LET r == Push(ringBuffer[0], item)
    IN /\ ringBuffer' = [ringBuffer EXCEPT ![0] = r.rb]
       /\ ret' = [op |-> "Push", ok |-> r.ok, item |-> item]
       /\ UNCHANGED <<static, calls, panic, solo, addr, objects, index, mu,
                      waiters,
                      pc, obj, idx, shard, held, objState, allocs, stored,
                      pushedSince>>

\* item, ok := rb.Pop()
RingBuffer_Pop ==
    LET r == Pop(ringBuffer[0])
    IN /\ ringBuffer' = [ringBuffer EXCEPT ![0] = r.rb]
       /\ ret' = [op |-> "Pop", ok |-> r.ok, item |-> r.item]
       /\ UNCHANGED <<static, calls, panic, solo, addr, objects, index, mu,
                      waiters,
                      pc, obj, idx, shard, held, objState, allocs, stored,
                      pushedSince>>

NextRing ==
    \/ \E item \in ObjIds : RingBuffer_Push(item)
    \/ RingBuffer_Pop

SpecRing == InitRing /\ [][NextRing]_vars

\* C12: for every capacity >= 1 and after any sequence of Push and Pop calls,
\* 0 <= size <= capacity, 0 <= head < capacity, 0 <= tail < capacity and
\* tail = (head + size) mod capacity.
C12_RingStructure ==
    LET rb == ringBuffer[0]
    IN /\ rb.capacity >= 1
       /\ 0 <= rb.size /\ rb.size <= rb.capacity
       /\ 0 <= rb.head /\ rb.head < rb.capacity
       /\ 0 <= rb.tail /\ rb.tail < rb.capacity
       /\ rb.tail = (rb.head + rb.size) % rb.capacity

\* head and tail have both gone round the end of the slice
C12_Witness ==
    LET rb == ringBuffer[0]
    IN /\ ret.op = "Pop" /\ ret.ok
       /\ rb.capacity > 1
       /\ rb.head = rb.capacity - 1
       /\ rb.size = rb.capacity - 1
       /\ rb.tail < rb.head

PushContract(item) ==
    LET rb == ringBuffer[0]
        after == ringBuffer'[0]
    IN /\ ret'.op = "Push"
       /\ (ret'.ok = FALSE) <=> (rb.size = rb.capacity)
       /\ ~ret'.ok => after = rb
       /\ ret'.ok =>
             /\ after.size = rb.size + 1
             /\ after.buffer[rb.tail + 1] = item
             /\ after.head = rb.head

PushKeepsContract == \A item \in ObjIds : RingBuffer_Push(item) => PushContract(item)

\* C13: Push returns false exactly when size = capacity before the call, and
\* then buffer, head, tail and size are unchanged; when it returns true the
\* size has grown by one and the item is in the slot of the old tail.
C13_PushContract == [][PushKeepsContract]_vars

\* a Push was refused by a full buffer that has seen traffic
C13_Witness ==
    /\ ret.op = "Push" /\ ~ret.ok
    /\ IsFull(ringBuffer[0])
    /\ ringBuffer[0].head > 0

PopContract ==
    LET rb == ringBuffer[0]
        after == ringBuffer'[0]
    IN /\ ret'.op = "Pop"
       /\ (ret'.ok = FALSE) <=> (rb.size = 0)
       /\ ~ret'.ok => (ret'.item = Nil /\ after = rb)
       /\ ret'.ok =>
             /\ after.size = rb.size - 1
             /\ ret'.item = rb.buffer[rb.head + 1]
             /\ after.tail = rb.tail

PopKeepsContract == RingBuffer_Pop => PopContract

\* C14: Pop returns ok = false exactly when size = 0 before the call, and
\* then it returns the zero value and buffer, head, tail and size are
\* unchanged; when ok is true the size has shrunk by one and the item is the
\* one that was in the slot of the old head.
C14_PopContract == [][PopKeepsContract]_vars

\* a Pop found a buffer empty that has seen traffic
C14_Witness ==
    /\ ret.op = "Pop" /\ ~ret.ok /\ ret.item = Nil
    /\ IsEmpty(ringBuffer[0])
    /\ ringBuffer[0].head > 0


\* ------------------------------------------------------------ FIFO order
FifoVariants ==
    RingMutexVariants \cup {"RingBufferCondPool", "ChannelBasedPool"}

\* the resident objects of segment s, oldest first: the ring from head on,
\* or the channel's buffer
Queue(s) ==
    IF SegmentType = "ChannelBasedPool" THEN objects[s]
    ELSE LET rb == ringBuffer[s]
         IN [i \in 1..rb.size |-> rb.buffer[((rb.head + i - 1) % rb.capacity) + 1]]

\* a step either leaves the queue alone, or is a Get that takes its oldest
\* object, or is a Put that adds its object behind all the others
FifoStep ==
    \/ Queue(0)' = Queue(0)
    \/ \E t \in Threads :
          /\ pc[t] \in PendingGetLabels
          /\ Len(Queue(0)) > 0
          /\ obj'[t] = Head(Queue(0))
          /\ Queue(0)' = Tail(Queue(0))
    \/ \E t \in Threads :
          /\ pc[t] \in {"put_body", "chan_put_send"}
          /\ Queue(0)' = Append(Queue(0), obj[t])

\* C15: in MutexRingBufferPool (and its RWMutex twin), RingBufferCondPool and
\* ChannelBasedPool the resident objects form a queue which starts as the
\* pre-populated objects in allocation order; every Get that takes an object
\* takes the oldest one and every successful Put adds its object at the end,
\* so objects come out in the order in which they went in, also when the
\* ring's head and tail wrap around.
C15_FifoOrder ==
    /\ (variant \in FifoVariants) => Queue(0) = PrePopulated(0, capacity)
    /\ [][(variant \in FifoVariants) => FifoStep]_vars

\* in a ring of capacity 2 the third Get has just taken an object a Put had
\* stored in the slot before the head
C15_Witness ==
    /\ variant = "MutexRingBufferPool"
    /\ capacity = 2
    /\ calls = [Get |-> 3, Put |-> 1]
    /\ ringBuffer[0].head = 1
    /\ ringBuffer[0].size = 0
    /\ \E t \in Threads : pc[t] = "get_unlock" /\ obj[t] = 1


\* ------------------------------------------- one goroutine, stack pools
\* AtomicBasedPool, MutexBasedPool and CondBasedPool keep their objects in a
\* slice used as a stack.  Here a single goroutine makes all the calls.
StackVariants == {"AtomicBasedPool", "MutexBasedPool", "CondBasedPool"}

InitStack ==
    \E v \in StackVariants, c \in 1..MaxCap : InitPool(v, 1, c, NoCalls)

NextStack ==
    \/ GetCall(1)
    \/ GetReturn(1)
    \/ PutCall(1)
    \/ Get_Lock(1)
    \/ Get_Unlock(1)
    \/ Put_Lock(1)
    \/ Put_Unlock(1)
    \/ MutexBasedPool_Get(1)
    \/ MutexBasedPool_Put(1)
    \/ CondBasedPool_Get(1)
    \/ CondBasedPool_Put(1)
    \/ AtomicBasedPool_Get_Load(1)
    \/ AtomicBasedPool_Get_CAS(1)
    \/ AtomicBasedPool_Get_Read(1)
    \/ AtomicBasedPool_Put_Load(1)
    \/ AtomicBasedPool_Put_CAS(1)
    \/ AtomicBasedPool_Put_Write(1)

SpecStack == InitStack /\ [][NextStack]_vars

\* the objects stored and not yet taken, most recent last.  In the
\* AtomicBasedPool the slot a Get has released by its CAS holds its object
\* until the Get reads it, and the slot a Put has reserved by its CAS holds
\* none until the Put writes it.
Stack(s) ==
    IF SegmentType = "AtomicBasedPool"
    THEN CASE pc[1] = "atomic_get_read" -> SubSeq(objects[s], 1, index[s] + 1)
           [] pc[1] = "atomic_put_write" -> SubSeq(objects[s], 1, index[s] - 1)
           [] OTHER -> SubSeq(objects[s], 1, index[s])
    ELSE objects[s]

\* a step either leaves the stack alone, or is a Get that takes its top, or
\* is a Put that stores its object on top
LifoStep ==
    \/ Stack(0)' = Stack(0)
    \/ /\ pc[1] \in PendingGetLabels \cup {"atomic_get_read"}
       /\ Len(Stack(0)) > 0
       /\ obj'[1] = Stack(0)[Len(Stack(0))]
       /\ Stack(0)' = SubSeq(Stack(0), 1, Len(Stack(0)) - 1)
    \/ /\ pc[1] \in {"put_body", "atomic_put_write"}
       /\ Stack(0)' = Append(Stack(0), obj[1])

\* C16: when a single goroutine uses an AtomicBasedPool, a MutexBasedPool or
\* a CondBasedPool, the stored objects form a stack which starts as the
\* pre-populated objects; every Get that takes an object takes the one stored
\* by the most recent successful Put not yet taken, and every successful Put
\* stores its object on top.
C16_LifoOrder ==
    /\ Stack(0) = PrePopulated(0, capacity)
    /\ [][LifoStep]_vars

\* the goroutine has emptied an AtomicBasedPool of capacity 2, put the two
\* objects back in the other order, and its next Get returned the second
C16_Witness ==
    /\ variant = "AtomicBasedPool"
    /\ capacity = 2
    /\ calls = [Get |-> 3, Put |-> 2]
    /\ pc[1] = "get_ret"
    /\ obj[1] = 1
    /\ objects[0] = <<2, 1>>
    /\ index[0] = 1


\* ------------------------------------------------ AtomicBasedPool bounds
\* C17: in every reachable state of an AtomicBasedPool, under every
\* interleaving of Gets and Puts, 0 <= index <= capacity, and every slot
\* access uses an in-range position of the slice of length capacity: a Get
\* about to read objects[idx-1] has 0 <= idx-1 < capacity and a Put about to
\* write objects[idx] has 0 <= idx < capacity.
C17_AtomicIndexInRange ==
    (variant = "AtomicBasedPool") =>
        /\ Len(objects[0]) = capacity
        /\ 0 <= index[0] /\ index[0] <= capacity
        /\ \A t \in Threads :
              /\ (pc[t] = "atomic_get_read") =>
                    (0 <= idx[t] - 1 /\ idx[t] - 1 < capacity)
              /\ (pc[t] = "atomic_put_write") =>
                    (0 <= idx[t] /\ idx[t] < capacity)

\* a Get about to read the lowest slot while a Put is about to write the
\* highest one
C17_Witness ==
    /\ variant = "AtomicBasedPool"
    /\ \E t, u \in Threads :
          /\ pc[t] = "atomic_get_read" /\ idx[t] = 1
          /\ pc[u] = "atomic_put_write" /\ idx[u] = capacity - 1


\* ------------------------------------- concurrent Gets, AtomicBasedPool
\* the goroutines whose Get has returned and who have done nothing since
JustReturned == {t \in Threads : pc[t] = "get_ret"}

\* on a fresh AtomicBasedPool every call so far was one Get by each of the
\* goroutines in JustReturned, and all those Gets have returned
EachGotOnce ==
    /\ variant = "AtomicBasedPool"
    /\ calls.Put = 0
    /\ calls.Get = Cardinality(JustReturned)

\* C18: on a fresh AtomicBasedPool of capacity c, when k <= c goroutines have
\* each called Get once, concurrently and with no Put, the k objects returned
\* are pairwise distinct and are pre-populated objects.
C18_ConcurrentGetsDistinct ==
    (EachGotOnce /\ Cardinality(JustReturned) <= capacity) =>
        /\ \A t, u \in JustReturned : (t # u) => (obj[t] # obj[u])
        /\ \A t \in JustReturned : obj[t] \in Range(PrePopulated(0, capacity))

\* two goroutines have each drawn from a pool of capacity 2
C18_Witness ==
    /\ EachGotOnce
    /\ capacity = 2
    /\ pc[1] = "get_ret" /\ pc[2] = "get_ret"
    /\ {obj[1], obj[2]} = {1, 2}

\* two goroutines have each called Get once on a fresh AtomicBasedPool of
\* capacity 2 and both calls have returned
TwoDraws ==
    /\ EachGotOnce
    /\ capacity = 2
    /\ JustReturned = {1, 2}

\* the statement as the specification words it: exactly one allocation
C19_ExactlyOneAllocation == TwoDraws => allocs = 1

\* C19: on a fresh AtomicBasedPool of capacity 2, two Gets called by two
\* concurrent goroutines with no Put cause no allocation at all; as long as
\* no Put is called, the third Get is the first to allocate, so once three
\* Gets have returned exactly one allocation has occurred.
C19_AllocationOnThirdDraw ==
    (variant = "AtomicBasedPool" /\ capacity = 2 /\ calls.Put = 0) =>
        /\ (calls.Get <= 2) => allocs = 0
        /\ (calls.Get = 3 /\ PendingGets = {} /\
            (\A t \in Threads : pc[t] # "atomic_get_read")) => allocs = 1

C19_Witness == TwoDraws /\ allocs = 0 /\ index[0] = 0


\* ------------------------------------------------- shard-index caching
\* an index-caching sharded pool used by two goroutines: one that Gets and
\* Puts, and one that interferes with it
NextRoute == \E t \in LiveThreads : ShardedStep(t)

SpecRoute == InitSharded /\ [][NextRoute]_vars

\* the positions of a goroutine inside a segment's Put
PutLabels ==
    {"put_lock", "put_body", "put_unlock", "chan_put_clean", "chan_put_send",
     "atomic_put_load", "atomic_put_cas", "atomic_put_write"}

\* the objects the constructor put into segment s
Native(s) == Range(PrePopulated(s, capacity))

\* every object a caller holds carries the index of an existing segment, its
\* own segment if it is a pre-populated one; and an object on its way through
\* a segment's Put is in the Put of the segment it came from
StampedWithOrigin ==
    /\ \A o \in ObjIds : (held[o] > 0) =>
          /\ objState[o].shardIndex \in Shards
          /\ \A s \in Shards : (o \in Native(s)) => objState[o].shardIndex = s
    /\ \A t \in Threads : (pc[t] \in PutLabels) =>
          \A s \in Shards : (obj[t] \in Native(s)) => shard[t] = s

\* the sharded Get stamps the object with the index of the segment whose Get
\* produced it; the stamp of a held object does not change; the sharded Put
\* delegates to the segment of the stamp
StampAndRoute ==
    /\ \A t \in Threads : (pc[t] = "get_ret" /\ pc'[t] = "idle") =>
          objState'[obj[t]].shardIndex = shard[t]
    /\ \A o \in ObjIds : (held[o] > 0 /\ held'[o] > 0) =>
          objState'[o].shardIndex = objState[o].shardIndex
    /\ \A t \in Threads : (pc[t] = "idle" /\ pc'[t] \in PutLabels) =>
          shard'[t] = objState[obj'[t]].shardIndex

StampAndRouteStep == (variant \in ShardedVariants) => StampAndRoute

\* C20: in the index-caching sharded pools every object the sharded Get
\* returns carries the index of the segment whose Get produced it, it keeps
\* that index for as long as a caller holds it, and the sharded Put of the
\* object delegates to exactly that segment whatever processor the caller
\* runs on; in ShardedChannelBasedPool the segment is chosen before the
\* cleaner resets the index to -1.
C20_PutReturnsToOrigin ==
    /\ []((variant \in ShardedVariants) => StampedWithOrigin)
    /\ [][StampAndRouteStep]_vars

\* an object of segment 1 is in the Put of segment 1 of a
\* ShardedChannelBasedPool, after the cleaner has reset its index
C20_Witness ==
    /\ variant = "ShardedChannelBasedPool"
    /\ numShards = 2
    /\ \E t \in Threads :
          /\ pc[t] = "chan_put_send"
          /\ shard[t] = 1
          /\ obj[t] \in Native(1)
          /\ objState[obj[t]].shardIndex = -1

\* ------------------------------------------------ processor-pin affinity
\* C21: in the sharded pools that select the segment by runtimeProcPin(), for
\* every numShards >= 1 given to the constructor and every processor id the
\* runtime can return, the index Get uses lies in [0, numShards): Get makes no
\* out-of-range access to the segment list (which in Go is a runtime panic).
C21_GetIndexInRange ==
    variant \in ShardedVariants => panic # "Get"

\* ------------------------------------------- the sharded constructors
\* NewSharded...Pool(capacity, numShards, allocator, cleaner) as a step: the
\* behaviour starts with the arguments chosen and no pool yet.
AllShardedVariants == ShardedVariants \cup {"ShardedGoroutineIDPool"}

\* the state before the constructor is called with capacity c and numShards
\* n, for a program in which the objects O can come to exist
Unbuilt(v, c, n, O) ==
    /\ variant = v
    /\ request = [capacity |-> c, numShards |-> n]
    /\ numShards = 0
    /\ capacity = 0
    /\ ringBuffer = [s \in {} |-> NoRing]
    /\ objects = [s \in {} |-> <<>>]
    /\ index = [s \in {} |-> 0]
    /\ mu = [s \in {} |-> 0]
    /\ waiters = [s \in {} |-> {}]
    /\ pc = [t \in Threads |-> "idle"]
    /\ obj = [t \in Threads |-> Nil]
    /\ idx = [t \in Threads |-> 0]
    /\ shard = [t \in Threads |-> 0]
    /\ held = [o \in O |-> 0]
    /\ objState = [o \in O |-> testAllocator]
    /\ allocs = 0
    /\ calls = NoCalls
    /\ stored = {}
    /\ pushedSince = [t \in Threads |-> {}]
    /\ panic = "none"
    /\ solo = NoSolo
    /\ ret = NoRet
    /\ addr = [t \in Threads |-> 0]

InitCapacity ==
    \E v \in AllShardedVariants, c \in 0..MaxRequest, n \in 0..MaxRequest :
        Unbuilt(v, c, n, ObjIds)

\* if numShards <= 0 { numShards = runtime.GOMAXPROCS(0) };
\* shardCapacity := max(capacity/numShards, 1);
\* for i := range numShards { shards[i] = New...Pool(shardCapacity, ...) }
NewShardedPool ==
    LET n == IF request.numShards <= 0 THEN MaxProcs ELSE request.numShards
        c == shardCapacity(request.capacity, n)
        segment(s) == NewSegment(SegmentType, s, c)
    IN /\ numShards = 0
       /\ numShards' = n
       /\ capacity' = c
       /\ ringBuffer' = [s \in 0..(n - 1) |-> segment(s).ringBuffer]
       /\ objects' = [s \in 0..(n - 1) |-> segment(s).objects]
       /\ index' = [s \in 0..(n - 1) |-> segment(s).index]
       /\ mu' = [s \in 0..(n - 1) |-> 0]
       /\ waiters' = [s \in 0..(n - 1) |-> {}]
       /\ UNCHANGED <<variant, request, calls, panic, solo, ret, addr, pc, obj, idx,
                      shard, held, objState, allocs, stored, pushedSince>>

NextCapacity == NewShardedPool

SpecCapacity == InitCapacity /\ [][NextCapacity]_vars

\* the capacity segment s was constructed with: of its ring buffer, or of its
\* slice or channel
SegmentCapacity(s) ==
    IF SegmentType \in {"MutexRingBufferPool", "RingBufferCondPool"}
    THEN ringBuffer[s].capacity
    ELSE Len(objects[s])

RECURSIVE SumCapacity(_)
SumCapacity(S) ==
    IF S = {} THEN 0
    ELSE LET s == CHOOSE x \in S : TRUE
         IN SegmentCapacity(s) + SumCapacity(S \ {s})

Constructed == numShards > 0

\* C22: every sharded constructor gives each segment the capacity
\* max(capacity / numShards, 1), the division being integer division; for all
\* numShards >= 1 and capacity >= numShards the segment capacities add up to
\* at least numShards and at most the requested capacity.
C22_SegmentCapacity ==
    Constructed =>
        /\ \A s \in Shards :
              SegmentCapacity(s) =
                 (IF request.capacity \div numShards >= 1
                  THEN request.capacity \div numShards ELSE 1)
        /\ (request.numShards >= 1 /\ request.capacity >= request.numShards) =>
              /\ numShards = request.numShards
              /\ SumCapacity(Shards) >= numShards
              /\ SumCapacity(Shards) <= request.capacity

\* capacity 5 over 2 segments: the division truncates and one slot is lost
C22_Witness ==
    /\ Constructed
    /\ request = [capacity |-> 5, numShards |-> 2]
    /\ SumCapacity(Shards) = 4

\* ------------------------------------------- exhausting one segment
\* NewSharded...Pool(4, 2, ...), then one goroutine makes sequential calls;
\* the runtime may run it on any processor at each Get.
ExhaustRequest == [capacity |-> 4, numShards |-> 2]

\* the objects of the two segments and the ones the allocator can add
ExhaustObjs == 1..(ExhaustRequest.capacity + MaxAlloc)

InitExhaust ==
    \E v \in ShardedVariants :
        Unbuilt(v, ExhaustRequest.capacity, ExhaustRequest.numShards, ExhaustObjs)

NextExhaust ==
    \/ NewShardedPool
    \/ Constructed /\ ShardedPool_Get(1)
    \/ ShardedPool_Get_Return(1)
    \/ Constructed /\ ShardedPool_Put(1)
    \/ Get_Lock(1)
    \/ Get_Unlock(1)
    \/ Put_Lock(1)
    \/ Put_Unlock(1)
    \/ MutexRingBufferPool_Get(1)
    \/ MutexRingBufferPool_Put(1)
    \/ ChannelBasedPool_Get(1)
    \/ ChannelBasedPool_Put_Clean(1)
    \/ ChannelBasedPool_Put_Send(1)
    \/ AtomicBasedPool_Get_Load(1)
    \/ AtomicBasedPool_Get_CAS(1)
    \/ AtomicBasedPool_Get_Read(1)
    \/ AtomicBasedPool_Put_Load(1)
    \/ AtomicBasedPool_Put_CAS(1)
    \/ AtomicBasedPool_Put_Write(1)
    \/ RingBufferCondPool_Get(1)
    \/ RingBufferCondPool_Put(1)

SpecExhaust == InitExhaust /\ [][NextExhaust]_vars

\* the sharded pools whose segments call the allocator when they are empty
AllocatingShardedVariants ==
    {"ShardedMutexRingBufferPool", "ShardedChannelBasedPool",
     "ShardedAtomicBasedPool"}

\* the objects the callers hold
HeldObjs == {o \in DOMAIN held : held[o] > 0}

\* four Gets and no Put have been called, all four Gets have returned, and
\* all four were served by segment s
FourDrawsFrom(s) ==
    /\ Constructed
    /\ calls = [Get |-> 4, Put |-> 0]
    /\ pc[1] = "idle"
    /\ \A o \in HeldObjs : objState[o].shardIndex = s

\* what the scenario promises of segment s and of the other segment
Exhausted(s) ==
    /\ Occupancy(s) = 0
    /\ allocs = 2
    /\ HeldObjs = Native(s) \cup {NewObject - 2, NewObject - 1}
    /\ \A r \in Shards \ {s} : Occupancy(r) = 2 /\ Resident(r) = Native(r)

\* the statement as the specification words it, for every sharded pool: no
\* Get of the four waits, and the four draws leave the promised state
C23_ExhaustionAllPools ==
    (Constructed /\ calls.Put = 0 /\ panic = "none") =>
        /\ pc[1] \notin {"cond_wait", "cond_relock", "get_recheck"}
        /\ \A s \in Shards : FourDrawsFrom(s) => Exhausted(s)

\* C23: with capacity = 4 and numShards = 2 every segment has capacity 2.  In
\* ShardedMutexRingBufferPool, ShardedChannelBasedPool and
\* ShardedAtomicBasedPool four sequential Gets that all resolve to the same
\* segment take its 2 objects and allocate for the other 2 calls, and the
\* other segment still holds its 2 objects.  In ShardedCondBasedPool and
\* ShardedRingBufferCondPool no Get allocates: the third Get on the same
\* segment waits, so four draws from one segment never complete.  (Gets whose
\* processor id is no segment index are the subject of C21.)
C23_ExhaustionScenario ==
    (Constructed /\ calls.Put = 0 /\ panic = "none") =>
        /\ capacity = 2 /\ numShards = 2
        /\ (variant \in AllocatingShardedVariants) =>
              /\ pc[1] \notin {"cond_wait", "cond_relock", "get_recheck"}
              /\ \A s \in Shards : FourDrawsFrom(s) => Exhausted(s)
        /\ (variant \notin AllocatingShardedVariants) =>
              /\ allocs = 0
              /\ \A s \in Shards :
                    /\ ~FourDrawsFrom(s)
                    /\ (calls.Get = 3 /\ HeldObjs = Native(s) /\ shard[1] = s
                        /\ pc[1] # "idle") =>
                          pc[1] \in {"get_lock", "get_body", "cond_wait"}

\* a ShardedMutexRingBufferPool after four draws from segment 1
C23_Witness ==
    /\ variant = "ShardedMutexRingBufferPool"
    /\ FourDrawsFrom(1)
    /\ Exhausted(1)

\* ------------------------------------------------ segments share nothing
\* everything segment s owns: its buffer with the occupancy, its lock and the
\* goroutines parked on its condition variable
SegmentState(s) == <<Storage(s), mu[s], waiters[s]>>

\* a step changes a segment only on behalf of a goroutine delegated to it,
\* and it changes one segment at most; the segment list stays as constructed
OwnSegmentOnly ==
    /\ \A j \in Shards :
          (SegmentState(j)' # SegmentState(j)) =>
              /\ \E t \in Threads : pc'[t] # pc[t] /\ shard[t] = j
              /\ \A i \in Shards \ {j} : SegmentState(i)' = SegmentState(i)
    /\ numShards' = numShards
    /\ DOMAIN ringBuffer' = Shards
    /\ DOMAIN objects' = Shards
    /\ DOMAIN index' = Shards

OwnSegmentOnlyStep == (variant \in ShardedVariants) => OwnSegmentOnly

\* C24: in every sharded pool a Get or Put delegated to segment i leaves the
\* buffer, the occupancy and the synchronization state of every other segment
\* unchanged, and no operation changes the segment list after construction.
C24_SegmentsShareNothing == [][OwnSegmentOnlyStep]_vars

\* one goroutine has popped from segment 0 and another has pushed into
\* segment 1, each holding the lock of its own segment
C24_Witness ==
    /\ variant = "ShardedMutexRingBufferPool"
    /\ numShards = 2
    /\ pc[1] = "get_unlock" /\ shard[1] = 0 /\ mu[0] = 1
    /\ pc[2] = "put_unlock" /\ shard[2] = 1 /\ mu[1] = 2
    /\ obj[2] \in Resident(1)

\* ------------------------------------------- ShardedGoroutineIDPool
\* addr>>12 shifts by this many bits
PageShift == 12

\* x & y on non-negative integers
RECURSIVE BitAnd(_, _)
BitAnd(x, y) ==
    IF x = 0 \/ y = 0 THEN 0
    ELSE (x % 2) * (y % 2) + 2 * BitAnd(x \div 2, y \div 2)

\* a faulty mask, numShards instead of numShards - 1
getShard_MaskedByCount(a, n) == BitAnd(a \div (2 ^ PageShift), n)

\* id := int(addr>>12) & (p.numShards - 1)
getShard(a, n) == BitAnd(a \div (2 ^ PageShift), n - 1)

\* addresses of `dummy`: the first and the last byte of the pages 0..MaxPage
Addrs ==
    {page * (2 ^ PageShift) + off :
        page \in 0..MaxPage, off \in {0, (2 ^ PageShift) - 1}}

\* the constructor is called with numShards n and one object per segment
InitAffinity ==
    \E n \in 0..MaxRequest :
        Unbuilt("ShardedGoroutineIDPool", Max(n, 1), n, 1..(MaxRequest + MaxAlloc))

\* shard := p.getShard(); return shard.Get(), up to the call of shard.Get()
ShardedGoroutineIDPool_Get(t) ==
    /\ Constructed
    /\ pc[t] = "idle"
    /\ allocs + Cardinality(PendingGets) < MaxAlloc
    /\ Called("Get")
    /\ \E a \in Addrs :
          /\ addr' = [addr EXCEPT ![t] = a]
          /\ IF getShard(a, numShards) \in Shards
             THEN /\ shard' = [shard EXCEPT ![t] = getShard(a, numShards)]
                  /\ pc' = [pc EXCEPT ![t] = FirstGetLabel]
                  /\ panic' = panic
             ELSE /\ Crash("Get")
                  /\ shard' = shard
    /\ UNCHANGED <<static, solo, ret, ringBuffer, objects, index, mu, waiters,
                   obj, idx, held, objState, allocs, stored, pushedSince>>

\* shard := p.getShard(); shard.Put(obj), up to the call of shard.Put(obj)
ShardedGoroutineIDPool_Put(t) ==
    /\ Constructed
    /\ pc[t] = "idle"
    /\ Called("Put")
    /\ \E o \in DOMAIN held :
          /\ held[o] > 0
          /\ held' = [held EXCEPT ![o] = @ - 1]
          /\ obj' = [obj EXCEPT ![t] = o]
    /\ \E a \in Addrs :
          /\ addr' = [addr EXCEPT ![t] = a]
          /\ IF getShard(a, numShards) \in Shards
             THEN /\ shard' = [shard EXCEPT ![t] = getShard(a, numShards)]
                  /\ pc' = [pc EXCEPT ![t] = FirstPutLabel]
                  /\ panic' = panic
             ELSE /\ Crash("Put")
                  /\ shard' = shard
    /\ UNCHANGED <<static, solo, ret, ringBuffer, objects, index, mu, waiters,
                   idx, objState, allocs, stored, pushedSince>>

\* one goroutine using the pool
NextAffinity ==
    \/ NewShardedPool
    \/ ShardedGoroutineIDPool_Get(1)
    \/ GetReturn(1)
    \/ ShardedGoroutineIDPool_Put(1)
    \/ Get_Lock(1)
    \/ Get_Unlock(1)
    \/ Put_Lock(1)
    \/ Put_Unlock(1)
    \/ MutexRingBufferPool_Get(1)
    \/ MutexRingBufferPool_Put(1)

SpecAffinity == InitAffinity /\ [][NextAffinity]_vars

RECURSIVE IsPowerOfTwo(_)
IsPowerOfTwo(n) ==
    IF n <= 1 THEN n = 1
    ELSE n % 2 = 0 /\ IsPowerOfTwo(n \div 2)

\* the goroutine has just chosen its segment from the address in addr'
ChoosesSegment == pc[1] = "idle" /\ pc'[1] # "idle"

AffinityStep ==
    ChoosesSegment =>
        /\ panic' = "none"
        /\ shard'[1] \in Shards
        /\ IsPowerOfTwo(numShards) =>
              shard'[1] = (addr'[1] \div (2 ^ PageShift)) % numShards

\* C25: getShard computes id = (addr >> 12) & (numShards - 1).  When
\* numShards is a power of two the id equals (addr >> 12) mod numShards and
\* every segment index in [0, numShards) is the id of some address; for every
\* numShards >= 1, power of two or not, and every non-negative address the id
\* lies in [0, numShards), so the segment list is never indexed out of bounds.
C25_AddressMask ==
    /\ [](Constructed =>
            /\ panic = "none"
            /\ \A a \in Addrs : getShard(a, numShards) \in Shards
            /\ IsPowerOfTwo(numShards) =>
                  \A i \in Shards : \E a \in Addrs : getShard(a, numShards) = i)
    /\ [][AffinityStep]_vars

\* with 4 segments an address in page 5 has selected segment 1, and with 3
\* segments an address in page 5 has not selected 5 mod 3
C25_Witness ==
    /\ Constructed
    /\ pc[1] # "idle"
    /\ addr[1] \div (2 ^ PageShift) = 5
    /\ \/ numShards = 4 /\ shard[1] = 1
       \/ numShards = 3 /\ shard[1] = 0

\* ------------------------------------------------ the benchmark workload
\* b.RunParallel: every goroutine repeats obj := pool.Get(); pool.Put(obj).
\* The pool has at least as many objects as there are goroutines.
BenchVariants ==
    {"MutexRingBufferPool", "RWMutexRingBufferPool", "ChannelBasedPool",
     "AtomicBasedPool", "RingBufferCondPool"}

InitBench ==
    \E v \in BenchVariants, c \in NThreads..Max(MaxCap, NThreads) :
        InitPool(v, 1, c, Unbounded)

\* pool.Put(obj) of the loop body, with the object Get has just returned
Bench_Put(t) ==
    /\ pc[t] = "get_ret"
    /\ pc' = [pc EXCEPT ![t] = FirstPutLabel]
    /\ UNCHANGED <<config, ringBuffer, objects, index, mu, waiters, obj, idx,
                   shard, held, objState, allocs, stored, pushedSince>>

BenchStep(t) ==
    \/ GetCall(t)
    \/ Bench_Put(t)
    \/ Get_Lock(t)
    \/ Get_Unlock(t)
    \/ Put_Lock(t)
    \/ Put_Unlock(t)
    \/ MutexRingBufferPool_Get(t)
    \/ MutexRingBufferPool_Put(t)
    \/ RWMutexRingBufferPool_Get(t)
    \/ RWMutexRingBufferPool_Put(t)
    \/ ChannelBasedPool_Get(t)
    \/ ChannelBasedPool_Put_Clean(t)
    \/ ChannelBasedPool_Put_Send(t)
    \/ AtomicBasedPool_Get_Load(t)
    \/ AtomicBasedPool_Get_CAS(t)
    \/ AtomicBasedPool_Get_Read(t)
    \/ AtomicBasedPool_Put_Load(t)
    \/ AtomicBasedPool_Put_CAS(t)
    \/ AtomicBasedPool_Put_Write(t)
    \/ RingBufferCondPool_Get(t)
    \/ RingBufferCondPool_Put(t)

NextBench == \E t \in Threads : BenchStep(t)

SpecBench == InitBench /\ [][NextBench]_vars

\* C26: for MutexRingBufferPool, RWMutexRingBufferPool, ChannelBasedPool,
\* AtomicBasedPool and RingBufferCondPool constructed with capacity c, when
\* P <= c goroutines each repeat obj := Get(); Put(obj) any number of times,
\* under every interleaving the allocator is never invoked after
\* construction (and no Get ever has to wait for an object).
C26_BenchmarkNeverAllocates ==
    /\ allocs = 0
    /\ \A t \in Threads :
          /\ pc[t] \notin {"cond_wait", "cond_relock", "get_recheck"}
          /\ (pc[t] = "get_ret") => obj[t] \in Range(PrePopulated(0, capacity))

\* all goroutines are between Get and Put at once, after earlier iterations
\* have moved the ring's head
C26_Witness ==
    /\ variant = "MutexRingBufferPool"
    /\ \A t \in Threads : pc[t] = "get_ret"
    /\ ringBuffer[0].head > 0
    /\ allocs = 0

\* ------------------------------------------------------------- lock span
\* a step that invokes the allocator is taken with the segment's lock free
AllocatesUnlocked ==
    (variant \in RingMutexVariants /\ allocs' # allocs) => mu[0] = 0

\* C27: in MutexRingBufferPool and RWMutexRingBufferPool the lock is held
\* only around the single ring-buffer push or pop: the allocator is never
\* invoked while the pool's lock is held.
C27_AllocatorOutsideLock == [][AllocatesUnlocked]_vars

\* ------------------------- the earlier AtomicBasedPool (package benchs)
\* The pool of the earlier revision keeps its index in a plain int64 used
\* through atomic.LoadInt64 / atomic.CompareAndSwapInt64.  Its constructor
\* runs as a step; Get and Put follow the same Load / CAS / slot access
\* sequence as the later pool, and Put calls the cleaner first.
InitEarlier ==
    \E c \in 1..MaxCap : Unbuilt("EarlierAtomicBasedPool", c, 1, ObjIds)

\* pool := &AtomicBasedPool{objects: make(.., capacity), capacity: ..};
\* for i := range capacity { pool.objects[i] = allocator() }
\* The index field is not mentioned: it keeps the zero value of int64.
NewEarlierAtomicBasedPool ==
    /\ variant = "EarlierAtomicBasedPool"
    /\ numShards = 0
    /\ numShards' = 1
    /\ capacity' = request.capacity
    /\ ringBuffer' = [s \in {0} |-> NoRing]
    /\ objects' = [s \in {0} |-> PrePopulated(0, request.capacity)]
    /\ index' = [s \in {0} |-> 0]
    /\ mu' = [s \in {0} |-> 0]
    /\ waiters' = [s \in {0} |-> {}]
    /\ UNCHANGED <<variant, request, calls, panic, solo, ret, addr, pc, obj, idx,
                   shard, held, objState, allocs, stored, pushedSince>>

\* Put(obj) up to its loop: if p.cleaner != nil { p.cleaner(obj) }
EarlierAtomicBasedPool_Put(t) ==
    /\ Constructed
    /\ pc[t] = "idle"
    /\ \E o \in ObjIds :
          /\ held[o] > 0
          /\ held' = [held EXCEPT ![o] = @ - 1]
          /\ obj' = [obj EXCEPT ![t] = o]
          /\ objState' = [objState EXCEPT ![o] = testCleaner(@)]
    /\ pc' = [pc EXCEPT ![t] = "atomic_put_load"]
    /\ Called("Put")
    /\ UNCHANGED <<static, panic, solo, ret, addr, ringBuffer, objects, index,
                   mu, waiters, idx, shard, allocs, stored, pushedSince>>

EarlierStep(t) ==
    \/ Constructed /\ GetCall(t)
    \/ GetReturn(t)
    \/ EarlierAtomicBasedPool_Put(t)
    \/ AtomicBasedPool_Get_Load(t)
    \/ AtomicBasedPool_Get_CAS(t)
    \/ AtomicBasedPool_Get_Read(t)
    \/ AtomicBasedPool_Put_Load(t)
    \/ AtomicBasedPool_Put_CAS(t)
    \/ AtomicBasedPool_Put_Write(t)

NextEarlier ==
    \/ NewEarlierAtomicBasedPool
    \/ \E t \in Threads : EarlierStep(t)

SpecEarlier == InitEarlier /\ [][NextEarlier]_vars

\* C28: in the earlier AtomicBasedPool, after NewAtomicBasedPool(capacity)
\* with capacity >= 1 the fill index equals capacity, and the first
\* `capacity` Gets invoke no allocator and return pre-populated objects.
C28_EarlierPoolStartsFull ==
    (Constructed /\ calls.Put = 0 /\ calls.Get <= capacity) =>
        /\ (calls.Get = 0) => index[0] = capacity
        /\ allocs = 0
        /\ \A t \in Threads :
              (pc[t] = "get_ret") => obj[t] \in Range(PrePopulated(0, capacity))

\* ------------------------------------------------- object conservation
\* the pool types whose Get and Put run under the pool's mutex
LockedVariants ==
    {"MutexRingBufferPool", "RWMutexRingBufferPool", "MutexBasedPool",
     "RingBufferCondPool"}

\* the number of occupied slots of segment s that contain object o
SlotsOf(o, s) ==
    IF SegmentType = "MutexBasedPool"
    THEN Cardinality({i \in 1..Len(objects[s]) : objects[s][i] = o})
    ELSE LET rb == ringBuffer[s]
         IN Cardinality({i \in 0..(rb.size - 1) :
                            rb.buffer[((rb.head + i) % rb.capacity) + 1] = o})

\* the calls that carry object o: a Get that has taken it out and not yet
\* returned it, or a Put that has not yet reached its push
Carrying(o) ==
    {t \in Threads :
        obj[t] = o /\ pc[t] \in {"get_unlock", "get_ret", "put_lock", "put_body"}}

\* the goroutines between Lock and Unlock of segment s
InCritical(s) ==
    {t \in Threads :
        /\ shard[t] = s
        /\ pc[t] \in {"get_body", "get_recheck", "get_unlock", "put_body",
                      "put_unlock"}}

\* C29: in MutexRingBufferPool, RWMutexRingBufferPool, MutexBasedPool and
\* RingBufferCondPool, under every interleaving of Get and Put by callers
\* that Put only an object they hold, every object is in at most one place
\* (one buffer slot, one caller, or one call in progress), and at most one
\* goroutine is inside the locked part of Get or Put, which is the owner of
\* the mutex.
C29_ObjectConservation ==
    variant \in LockedVariants =>
        /\ \A o \in ObjIds :
              SlotsOf(o, 0) + held[o] + Cardinality(Carrying(o)) <= 1
        /\ Cardinality(InCritical(0)) <= 1
        /\ \A t \in InCritical(0) : mu[0] = t

\* one goroutine is inside Put under the lock, carrying an object, while the
\* other one waits for the lock in Get and another object is resident
C29_Witness ==
    /\ variant \in LockedVariants
    /\ \E t, u \in Threads :
          /\ pc[t] = "put_body"
          /\ pc[u] = "get_lock"
          /\ mu[0] = t
          /\ Carrying(obj[t]) = {t}
    /\ \E o \in ObjIds : SlotsOf(o, 0) = 1

\* ------------------------------------------------------ no lost wakeup
\* the Gets of segment s parked on the notify list of the condition variable
Parked(s) ==
    {t \in Threads : shard[t] = s /\ pc[t] = "cond_wait"}

\* the Gets of segment s that a Signal has woken and that have not yet
\* tested the loop condition again: they wait for the lock inside Wait, or
\* have just come back from Wait
Woken(s) ==
    {t \in Threads : shard[t] = s /\ pc[t] \in {"cond_relock", "get_recheck"}}

\* an object is never left in the buffer with a Get parked and nobody woken
NoLostWakeup ==
    (~IsEmpty(ringBuffer[0]) /\ Parked(0) # {}) => Woken(0) # {}

\* a Get that is inside its wait loop while the buffer is non-empty leaves the
\* loop, or the buffer becomes empty
WaitingGetReturns ==
    \A t \in Threads :
        (pc[t] \in {"cond_wait", "cond_relock", "get_recheck"}
            /\ ~IsEmpty(ringBuffer[0]))
        ~> (pc[t] \in {"get_unlock", "get_ret", "idle"}
            \/ IsEmpty(ringBuffer[0]))

InTransit ==
    {t \in Threads :
        /\ obj[t] # Nil
        /\ pc[t] \in {"get_unlock", "get_ret", "put_lock", "put_body"}}

\* the step of a Put that passes its test of the buffer pushes the object
\* and takes one goroutine, if there is any, off the notify list
PutPushesAndSignals ==
    \A t \in Threads :
        (pc[t] = "put_body" /\ pc'[t] # "put_body") =>
            /\ Size(ringBuffer[0])' = Size(ringBuffer[0]) + 1
            /\ obj[t] \in Resident(0)'
            /\ obj[t] \in stored'
            /\ (waiters[0] # {}) =>
                  Cardinality(waiters[0]') = Cardinality(waiters[0]) - 1

\* every step of a RingBufferCondPool
CondPoolNeverDropsStep ==
    (variant = "RingBufferCondPool") => PutPushesAndSignals

\* C31: in RingBufferCondPool, when callers Put only objects they got from
\* Get of the same pool, each once, the resident objects and the objects with
\* callers (held, or carried by a call in progress) are `capacity` together
\* in every reachable state, no Put finds the buffer full, and every Put
\* pushes its object and signals.
C31_CondPoolNeverDrops ==
    /\ [] ((variant = "RingBufferCondPool") =>
              /\ Size(ringBuffer[0]) + TotalHeld + Cardinality(InTransit)
                    = capacity
              /\ allocs = 0
              /\ \A t \in Threads :
                    (pc[t] = "put_body") => ~IsFull(ringBuffer[0]))
    /\ [][CondPoolNeverDropsStep]_vars

\* a Put is about to push the last missing object while the other goroutine
\* is parked in Wait
C31_Witness ==
    /\ variant = "RingBufferCondPool"
    /\ \E t, u \in Threads :
          /\ pc[t] = "put_body"
          /\ pc[u] = "cond_wait"
          /\ u \in waiters[0]
          /\ Size(ringBuffer[0]) = capacity - 1

\* --------------------------- sharded Get waits on its own segment only
\* the positions of a goroutine inside Get of a RingBufferCondPool segment
GetLabels ==
    {"get_lock", "get_body", "cond_wait", "cond_relock", "get_recheck",
     "get_unlock", "get_ret"}

\* the sharded pools whose segments are RingBufferCondPools
ShardedCondVariants == {"ShardedCondBasedPool", "ShardedRingBufferCondPool"}

\* a Get parks only when its segment is empty; it leaves Wait only in the
\* step of a Put that pushes into the same segment; what it returns it has
\* popped from its segment, the other segments keeping their objects; and
\* no step of a Get calls the allocator
WaitsOnOwnSegment ==
    /\ \A t \in Threads :
          /\ (pc[t] \in GetLabels /\ pc'[t] # pc[t]) => allocs' = allocs
          /\ (pc[t] # "cond_wait" /\ pc'[t] = "cond_wait") =>
                Resident(shard[t]) = {}
          /\ (pc[t] = "cond_wait" /\ pc'[t] # "cond_wait") =>
                \E u \in Threads \ {t} :
                    /\ pc[u] = "put_body"
                    /\ pc'[u] = "put_unlock"
                    /\ shard[u] = shard[t]
                    /\ obj[u] \in Resident(shard[t])'
          /\ (pc[t] \in {"get_body", "get_recheck"} /\ pc'[t] = "get_unlock") =>
                /\ obj'[t] \in Resident(shard[t])
                /\ \A j \in Shards \ {shard[t]} : Resident(j)' = Resident(j)

\* every step of these pools that is not a runtime panic of the program
WaitsOnOwnSegmentStep ==
    (variant \in ShardedCondVariants /\ panic' = "none") => WaitsOnOwnSegment

\* C32: in ShardedRingBufferCondPool and ShardedCondBasedPool a Get whose
\* segment is empty stays blocked until a Put is delegated to that same
\* segment, also while other segments hold objects; it takes no object from
\* another segment and it never allocates.
C32_GetWaitsOnOwnSegment == [][WaitsOnOwnSegmentStep]_vars

\* a Get is parked on its empty segment while a Put has just pushed an
\* object into another segment
C32_Witness ==
    /\ variant \in ShardedCondVariants
    /\ \E t, u \in Threads :
          /\ pc[t] = "cond_wait"
          /\ Resident(shard[t]) = {}
          /\ pc[u] = "put_unlock"
          /\ shard[u] # shard[t]
          /\ obj[u] \in Resident(shard[u])

\* ------------------------- ShardedGoroutineIDPool ignores the cached index
\* a step of the constructed pool: no step writes an object's shardIndex; Put
\* selects the segment of the address it reads at Put time, whatever object
\* it is given; its push adds the object to that segment, or leaves the
\* segment as it is when it is full; a Get takes one object out of its
\* segment, if it has any; and no other segment changes
IgnoresCachedIndex ==
    /\ \A o \in DOMAIN objState :
          objState'[o].shardIndex = objState[o].shardIndex
    /\ (pc[1] = "idle" /\ pc'[1] = FirstPutLabel) =>
          shard'[1] = getShard(addr'[1], numShards)
    /\ (pc[1] = "put_body" /\ pc'[1] # "put_body") =>
          /\ IF Occupancy(shard[1]) < capacity
             THEN /\ Occupancy(shard[1])' = Occupancy(shard[1]) + 1
                  /\ obj[1] \in Resident(shard[1])'
             ELSE Storage(shard[1])' = Storage(shard[1])
          /\ \A j \in Shards \ {shard[1]} : Storage(j)' = Storage(j)
    /\ (pc[1] = "get_body" /\ pc'[1] # "get_body") =>
          /\ IF Occupancy(shard[1]) > 0
             THEN /\ Occupancy(shard[1])' = Occupancy(shard[1]) - 1
                  /\ obj'[1] \in Resident(shard[1])
             ELSE Storage(shard[1])' = Storage(shard[1])
          /\ \A j \in Shards \ {shard[1]} : Storage(j)' = Storage(j)

IgnoresCachedIndexStep == Constructed => IgnoresCachedIndex

\* C33: Get and Put of ShardedGoroutineIDPool neither read nor write the
\* object's shardIndex; Put pushes the object into the segment the address
\* selects at Put time, independently of the segment the object was drawn
\* from, so that the object moves to another segment when the two differ: the
\* origin stays one object short, the destination gains the object, or drops
\* it if it is full.  Every object keeps the shardIndex the allocator gave it.
C33_CachedIndexUnused ==
    /\ [](Constructed =>
            \A o \in DOMAIN objState :
                objState[o].shardIndex = testAllocator.shardIndex)
    /\ [][IgnoresCachedIndexStep]_vars

\* an object pre-populated in one segment is resident in another one, and its
\* origin is empty
C33_Witness ==
    /\ Constructed
    /\ \E i, j \in Shards :
          /\ i # j
          /\ Native(i) \cap Resident(j) # {}
          /\ Occupancy(i) = 0
          /\ pc[1] = "idle"

====
